---------------------------- MODULE Spec2Model ----------------------------
(***************************************************************************)
(* A model of the distributed file store: the client (client24s.c), the   *)
(* coordinator Smain (src/unnamed/part_001) and the backend store Spdf     *)
(* (src/unnamed/part_000).                                                 *)
(*                                                                         *)
(* Every process is a sequential program that blocks only in recv().  An   *)
(* action is one recv() together with everything the code does up to its   *)
(* next recv(): the sends, the file operations and the local computation.  *)
(* A TCP connection is a pair of byte streams.  A stream is modelled as    *)
(* the sequence of the units written to it (one control string, or one     *)
(* body byte); recv() returns any non-empty prefix of what is in the       *)
(* stream, so two writes can be returned by one read (TCP keeps no message *)
(* boundaries) and a body can arrive in pieces.                            *)
(***************************************************************************)
EXTENDS Integers, Sequences, FiniteSets, TLC

(***************************************************************************)
(* Bounds of the model.                                                    *)
(***************************************************************************)
\* the longest file content, in bytes
MaxFileLen == 2
\* the number of commands typed at the clients' prompts in one run
MaxCmds == 2

(***************************************************************************)
(* Program constants.                                                      *)
(***************************************************************************)
BUFFER_SIZE == 1024
STEXT_SERVER_PORT == 4014
SPDF_SERVER_PORT == 4014

\* the client sessions (one forked prcclient of Smain serves each)
Sessions == {1, 2}
\* the coordinator's two outbound sockets, named after the globals
Conns == {"stext_server_socket", "spdf_server_socket"}

\* body byte values; 0 stands for a byte that was not a body byte
Bytes == {1, 2}

Contents == UNION {[1..n -> Bytes] : n \in 0..MaxFileLen}

\* relative directories a command can name; RootDir is the namespace root
RootDir == "."
JunkDir == "junk"
Dirs == {RootDir, "notes", JunkDir}
ClientDirs == {RootDir, "notes"}

\* file names, and what strrchr(name, '.') finds in each
JunkName == "junk.x"
ClientNames == {"n.c", "a.txt", "b.txt", "r.pdf", "noext", "x.zip"}
Names == ClientNames \cup {JunkName}
NoExt == "NULL"
strrchr_dot(name) ==
  CASE name = "n.c" -> ".c"
    [] name = "a.txt" -> ".txt"
    [] name = "b.txt" -> ".txt"
    [] name = "r.pdf" -> ".pdf"
    [] name = "x.zip" -> ".zip"
    [] name = JunkName -> ".x"
    [] OTHER -> NoExt

\* a destination path that names a regular file of the store the upload of
\* name is for (./smain for a .c name, the backend's root otherwise)
FileDirFor(name) == IF strrchr_dot(name) = ".c" THEN "n.c" ELSE "a.txt"

(***************************************************************************)
(* The units of a stream.  k is "cmd" (a command line), "txt" (a control   *)
(* string), "num" (a decimal length) or "byte" (one body byte).  count is   *)
(* the number of space-separated tokens of a command line.  g is a history *)
(* tag, the session whose command the unit belongs to; no code reads it.   *)
(***************************************************************************)
Tok(k, op, name, dir, n, s, g) ==
  [k |-> k, op |-> op, name |-> name, dir |-> dir, n |-> n, s |-> s, g |-> g,
   count |-> 0]
\* the tokens of the command lines the programs build with sprintf:
\* "ufile name size dest", and a verb with one argument for the others
TokenCount(op) == IF op = "ufile" THEN 4 ELSE 2
CmdTok(op, name, dir, n, g) ==
  [Tok("cmd", op, name, dir, n, "", g) EXCEPT !.count = TokenCount(op)]
\* a command line of count tokens: the arguments after those the verb uses
\* are in no field
ArgTok(op, name, dir, n, count, g) ==
  [Tok("cmd", op, name, dir, n, "", g) EXCEPT !.count = count]
TxtTok(s, g) == Tok("txt", "", "", "", 0, s, g)
NumTok(n, g) == Tok("num", "", "", "", n, "", g)
ByteTok(v, g) == Tok("byte", "", "", "", v, "", g)

\* the bytes of a chunk, one unit each
BodyToks(content, g) == [i \in 1..Len(content) |-> ByteTok(content[i], g)]

\* the number of bytes each control string is sent with
StrLen(s) ==
  CASE s = "ack" -> 3
    [] s = "File received by server" -> 24
    [] s = "File received " -> 14
    [] s = "Failed to receive file" -> 23
    [] s = "File downloaded" -> 16
    [] s = "Failed to download file" -> 24
    [] s = "File removed" -> 13
    [] s = "Failed to remove file" -> 22
    [] s = "Invalid command" -> 15
    [] OTHER -> 8

\* bytes of one unit: a command line is longer than any body of the model
TokLen(t) ==
  CASE t.k = "byte" -> 1
    [] t.k = "num" -> IF t.n < 0 THEN 2 ELSE 1
    [] t.k = "txt" -> StrLen(t.s)
    [] OTHER -> 12

RECURSIVE BufBytes(_)
BufBytes(buf) ==
  IF buf = <<>> THEN 0 ELSE TokLen(Head(buf)) + BufBytes(Tail(buf))

\* what fwrite(response, 1, bytes_received, file) appends: every byte of the
\* buffer (a byte of a control string or of a command line is written as 0)
RECURSIVE Written(_)
Written(buf) ==
  IF buf = <<>> THEN <<>>
  ELSE (IF Head(buf).k = "byte" THEN <<Head(buf).n>>
        ELSE [i \in 1..TokLen(Head(buf)) |-> 0]) \o Written(Tail(buf))

\* atoi of a received buffer: the leading decimal number, 0 when there is none
atoi(buf) == IF buf # <<>> /\ buf[1].k = "num" THEN buf[1].n ELSE 0

\* the string printed for a received control reply
ReplyText(buf) ==
  IF buf = <<>> THEN ""
  ELSE IF buf[1].k = "txt" THEN buf[1].s
  ELSE IF buf[1].k = "num" THEN "number"
  ELSE IF buf[1].k = "byte" THEN "bytes"
  ELSE "command"


(***************************************************************************)
(* A namespace root: the directories that exist under it and the regular   *)
(* files, keyed by <<relative directory, name>>.                           *)
(***************************************************************************)
EmptyFS == [dirs |-> {RootDir}, files |-> <<>>]
HasFile(fs, p) == p \in DOMAIN fs.files
FileOf(fs, p) == fs.files[p]
\* create_directories(): mkdir of every component, EEXIST tolerated: where a
\* regular file already has the name, nothing is created and 0 is returned
create_directories(fs, d) ==
  IF HasFile(fs, <<RootDir, d>>) THEN fs ELSE [fs EXCEPT !.dirs = @ \cup {d}]
\* whether fopen(path, "wb") can create the file: its directory must exist
CanCreate(fs, p) == p[1] \in fs.dirs
\* the file's content becomes c (fopen "wb" truncates: c = <<>>)
PutFile(fs, p, c) ==
  [fs EXCEPT !.files =
     [q \in (DOMAIN fs.files) \cup {p} |-> IF q = p THEN c ELSE fs.files[q]]]
\* remove(path), when the file exists
RemoveFile(fs, p) ==
  [fs EXCEPT !.files = [q \in (DOMAIN fs.files) \ {p} |-> fs.files[q]]]

(***************************************************************************)
(* traverse_directory and the archiving utility.  readdir's order is some  *)
(* order that does not change while the tree does not: the model takes the *)
(* order of PathSeq.  One line "name - path" of a listing is one unit of   *)
(* a stream, so the length of a listing is counted in lines.               *)
(***************************************************************************)
NameSeq == <<"n.c", "a.txt", "b.txt", "r.pdf", "noext", "x.zip", JunkName>>
DirSeq == <<RootDir, "notes", JunkDir>>
PathSeq ==
  [i \in 1..(Len(DirSeq) * Len(NameSeq)) |->
     <<DirSeq[((i - 1) \div Len(NameSeq)) + 1],
       NameSeq[((i - 1) % Len(NameSeq)) + 1]>>]
IndexIn(seq, x) == CHOOSE i \in 1..Len(seq) : seq[i] = x

\* a directory the listings are asked for that no namespace root holds
NoDir == "docs"
ListDirs == ClientDirs \cup {NoDir}

\* the line traverse_directory appends for file p when it started at d: the
\* name, and the path below d
file_entry(d, p) ==
  10 * IndexIn(NameSeq, p[2]) + (IF p[1] = d THEN 0 ELSE IndexIn(DirSeq, p[1]))

\* A path string is the sequence of its components below the namespace
\* root.  The directory a path names: "." components name no step down; the
\* stores of the model hold no directory below a directory of the root
NoSuchDir == "ENOENT"
DirOf(path) ==
  LET steps == SelectSeq(path, LAMBDA x : x # RootDir)
  IN IF steps = <<>> THEN RootDir
     ELSE IF Len(steps) = 1 THEN steps[1] ELSE NoSuchDir

\* readdir of directory d, in the order of PathSeq: the self and parent
\* entries, the regular files, the subdirectories
DirEntry(name, type) == [name |-> name, type |-> type]
Readdir(fs, d) ==
  LET regs == SelectSeq(NameSeq, LAMBDA n : HasFile(fs, <<d, n>>))
      subs == IF d = RootDir
              THEN SelectSeq(DirSeq, LAMBDA x : x # RootDir /\ x \in fs.dirs)
              ELSE <<>>
  IN <<DirEntry(".", "DT_DIR"), DirEntry("..", "DT_DIR")>>
       \o [i \in 1..Len(regs) |-> DirEntry(regs[i], "DT_REG")]
       \o [i \in 1..Len(subs) |-> DirEntry(subs[i], "DT_DIR")]

\* a faulty path + strlen(root): nothing is cut off
StripRoot_none(root, path) == path

\* path + strlen(root): the path below the directory the walk started from
StripRoot(root, path) == SubSeq(path, Len(root) + 1, Len(path))

\* the line "file_name - file_path": the name after the last '/', and the
\* directory part of file_path
EntryLine(file_path) ==
  10 * IndexIn(NameSeq, file_path[Len(file_path)])
    + (IF Len(file_path) = 1 THEN 0 ELSE IndexIn(DirSeq, file_path[1]))

\* traverse_directory(root, dir_path, file_paths): what it appends to
\* file_paths; nothing when opendir fails
RECURSIVE traverse(_, _, _), traverse_entries(_, _, _, _)
traverse_entries(fs, root, dir_path, entries) ==
  IF entries = <<>> THEN <<>>
  ELSE LET entry == Head(entries)
           path == dir_path \o <<entry.name>>
       IN (IF entry.name = "." \/ entry.name = ".." THEN <<>>
           ELSE IF entry.type = "DT_DIR" THEN traverse(fs, root, path)
           ELSE IF entry.type = "DT_REG"
           THEN <<EntryLine(StripRoot(root, path))>>
           ELSE <<>>)
          \o traverse_entries(fs, root, dir_path, Tail(entries))
traverse(fs, root, dir_path) ==
  IF DirOf(dir_path) \notin fs.dirs THEN <<>>
  ELSE traverse_entries(fs, root, dir_path, Readdir(fs, DirOf(dir_path)))

\* display_files: traverse_directory(root/d, root/d, file_paths)
traverse_directory(fs, d) == traverse(fs, <<d>>, <<d>>)

\* the bytes "tar -czf" writes for a namespace root: a member for the root
\* directory, then one per file, which stands for its path and its content
ContentCode(c) ==
  IF Len(c) = 0 THEN 0 ELSE IF Len(c) = 1 THEN c[1] ELSE 2 * c[1] + c[2]
TarOf(fs) ==
  LET found == SelectSeq(PathSeq, LAMBDA p : HasFile(fs, p))
  IN <<0>> \o [i \in 1..Len(found) |->
               100 * file_entry(RootDir, found[i]) + ContentCode(FileOf(fs, found[i]))]

\* the directory ./tar, which the three servers share: file types (c, txt,
\* pdf) to the bytes of ./tar/<type>.tar
NoTars == <<>>
HasTar(tars, type) == type \in DOMAIN tars
PutTar(tars, type, c) ==
  [q \in (DOMAIN tars) \cup {type} |-> IF q = type THEN c ELSE tars[q]]
\* what create_tar leaves in ./tar/<type>.tar: the archive, or when tar
\* fails the file as it was, or a file cut short
BuildOutcomes == {"built", "failed", "partial"}
create_tar(tars, type, fs, outcome) ==
  CASE outcome = "built" -> PutTar(tars, type, TarOf(fs))
    [] outcome = "partial" -> PutTar(tars, type, <<>>)
    [] OTHER -> tars

(***************************************************************************)
(* tokenize_command + the dispatch on commands[0].  A buffer that is one   *)
(* command line parses to it.  When more bytes follow the command line in  *)
(* the same buffer they are glued to its last argument (strtok splits on   *)
(* spaces only): the last argument becomes a name that no file has.  A     *)
(* buffer that starts with anything else has no known commands[0].         *)
(***************************************************************************)
InvalidCmd == ArgTok("invalid", "", "", 0, 1, 0)
tokenize_command(buf) ==
  IF buf = <<>> \/ buf[1].k # "cmd" THEN InvalidCmd
  ELSE IF Len(buf) = 1 THEN buf[1]
  ELSE IF buf[1].op = "ufile" THEN [buf[1] EXCEPT !.dir = JunkDir]
  ELSE [buf[1] EXCEPT !.name = JunkName]

VARIABLES
  cl,      \* cl[s]: the client process of session s (client24s.c)
  co,      \* co[s]: the Smain child serving session s (prcclient and below)
  be,      \* be[c]: the backend child serving the connection behind socket c
  c2m,     \* c2m[s]: bytes written by client s, not yet read by Smain
  m2c,     \* m2c[s]: bytes written by Smain to client s, not yet read
  m2b,     \* m2b[c]: bytes written by Smain children on socket c, not yet read
  b2m,     \* b2m[c]: bytes written by the backend on socket c, not yet read
  smain,   \* the directory ./smain
  spdf,    \* the directory ./spdf
  tar,     \* the directory ./tar
  ncmd,    \* commands typed so far
  main     \* Smain's parent process: main() up to and in its accept loop

vars == <<cl, co, be, c2m, m2c, m2b, b2m, smain, spdf, tar, ncmd, main>>

\* the results of recv(socket, buffer, BUFFER_SIZE, 0) on a stream: the
\* lengths of the prefixes it can return
RecvLens(ch) == {k \in 1..Len(ch) : BufBytes(SubSeq(ch, 1, k)) <= BUFFER_SIZE}
Taken(ch, k) == SubSeq(ch, 1, k)
Left(ch, k) == SubSeq(ch, k + 1, Len(ch))

\* a faulty loop test: the loop is left after its first recv
LoopEnded_first(total, size) == 0 < total \/ ~(total < size)

\* the receive loops' test, while (total_bytes_received < file_size): TRUE
\* when the loop is left
LoopEnded(total, size) == ~(total < size)

(***************************************************************************)
(* Smain (src/unnamed/part_001).  A child's state: pc names the recv() it  *)
(* is blocked in; op, name, dir, size are the command's fields; total and  *)
(* wbuf belong to receive_file's loop; rbuf is the file send_file opened;  *)
(* conn is socket_to_server; fetch is file_fetch; count is what            *)
(* tokenize_command returned to process_command.  rep (the last result     *)
(* reply sent), rtag (the tag of the backend reply read for a delete),     *)
(* sync (whether the backend socket was idle, with nothing unread in       *)
(* either direction, when this command's backend exchange began), rcv      *)
(* (what the last recv on the client socket returned: 1 stands for a       *)
(* positive length)                                                        *)
(* and blind (whether process_command was called on a buffer that recv did *)
(* not fill) are history.                                                  *)
(***************************************************************************)
NoConn == "none"
IdleM ==
  [pc |-> "cmd", op |-> "", name |-> "", dir |-> "", size |-> 0, total |-> 0,
   wbuf |-> <<>>, rbuf |-> <<>>, conn |-> NoConn, fetch |-> FALSE,
   count |-> 0, rep |-> "", rtag |-> 0, sync |-> FALSE, rcv |-> 1,
   blind |-> FALSE]

\* what one step of a child does besides moving on: st its next state, out
\* the units it writes to its client, bout those it writes to the backend
\* socket, fs the new ./smain
Eff(st, out, bout, fs) == [st |-> st, out |-> out, bout |-> bout, fs |-> fs]

\* a faulty routing rule: the two sockets swapped
SocketFor_swapped(ext) ==
  IF ext = ".txt" THEN "spdf_server_socket" ELSE "stext_server_socket"

\* the routing rule of process_ufile, process_dfile and process_rmfile
IsBackendExt(ext) == ext = ".txt" \/ ext = ".pdf"
SocketFor(ext) ==
  IF ext = ".txt" THEN "stext_server_socket" ELSE "spdf_server_socket"

\* a faulty reply: the child closes the session after a failure reply
M_reply_close(st, g, text, fs) ==
  Eff([IdleM EXCEPT !.op = st.op, !.name = st.name, !.dir = st.dir,
                    !.count = st.count, !.rep = text, !.rtag = st.rtag,
                    !.rcv = st.rcv, !.blind = st.blind,
                    !.pc = IF text \in {"Failed to receive file",
                                        "Failed to download file",
                                        "Failed to remove file",
                                        "Failed to download tar file",
                                        "Failed to get files"}
                           THEN "killed" ELSE "cmd"],
      <<TxtTok(text, g)>>, <<>>, fs)

\* process_command's send of the result reply; the child is back in prcclient
M_reply(st, g, text, fs) ==
  Eff([IdleM EXCEPT !.op = st.op, !.name = st.name, !.dir = st.dir,
                    !.count = st.count, !.rep = text, !.rtag = st.rtag,
                    !.rcv = st.rcv, !.blind = st.blind],
      <<TxtTok(text, g)>>, <<>>, fs)

\* e, with the units pre written to the client before e's
AfterOut(pre, e) == [e EXCEPT !.out = pre \o @]
\* e, with the units pre written to the backend socket before e's
AfterBout(pre, e) == [e EXCEPT !.bout = pre \o @]

\* where process_ufile stages the file: destination_path
M_ufile_dest(st) == IF strrchr_dot(st.name) = ".c" THEN st.dir ELSE RootDir

\* process_ufile after receive_file returned: forward to a backend, or done
M_ufile_forward(st, g, fs) ==
  LET ext == strrchr_dot(st.name) IN
  IF IsBackendExt(ext)
  THEN Eff([st EXCEPT !.pc = "fwd_cmd", !.conn = SocketFor(ext)], <<>>,
           <<CmdTok("ufile", st.name, st.dir, st.size, g)>>, fs)
  ELSE M_reply(st, g, "File received by server", fs)

\* receive_file once the loop has ended: the terminal "ack", fclose
M_receive_file_end(st, g, fs) ==
  AfterOut(<<TxtTok("ack", g)>>,
           M_ufile_forward(st, g,
                           PutFile(fs, <<M_ufile_dest(st), st.name>>, st.wbuf)))

\* process_ufile up to its first recv
M_process_ufile(st, g, fs) ==
  IF strrchr_dot(st.name) = NoExt
  THEN M_reply(st, g, "Failed to receive file", fs)
  ELSE LET d == M_ufile_dest(st)
           fs0 == create_directories(fs, d)
           fs1 == PutFile(fs0, <<d, st.name>>, <<>>)
       IN IF ~CanCreate(fs0, <<d, st.name>>)
          \* receive_file returns -1 at fopen; process_ufile goes on
          THEN M_ufile_forward(st, g, fs0)
          ELSE IF 0 < st.size
          THEN Eff([st EXCEPT !.pc = "ubody"], <<>>, <<>>, fs1)
          ELSE M_receive_file_end(st, g, fs1)

\* send_file(socket_to_server, "./smain/<name>") up to its first recv
M_forward_send_file(st, g, fs) ==
  IF HasFile(fs, <<RootDir, st.name>>)
  THEN Eff([st EXCEPT !.pc = "fwd_size", !.rbuf = FileOf(fs, <<RootDir, st.name>>)],
           <<>>, <<NumTok(Len(FileOf(fs, <<RootDir, st.name>>)), g)>>, fs)
  ELSE Eff([st EXCEPT !.pc = "fwd_nf"], <<>>, <<NumTok(-1, g)>>, fs)

\* process_ufile after send_file_to_server returned: remove the staged copy
M_ufile_finish(st, g, fs) ==
  LET p == <<M_ufile_dest(st), st.name>> IN
  IF HasFile(fs, p)
  THEN M_reply(st, g, "File received by server", RemoveFile(fs, p))
  ELSE M_reply(st, g, "Failed to receive file", fs)

\* a faulty end of process_dfile: the served file is removed whether or not
\* it was fetched from a backend
M_dfile_finish_rm(st, g, result, fs) ==
  LET p == <<st.dir, st.name>> IN
  IF HasFile(fs, p)
  THEN M_reply(st, g, IF result = 1 THEN "File downloaded"
                      ELSE "Failed to download file", RemoveFile(fs, p))
  ELSE M_reply(st, g, "Failed to download file", fs)

\* process_dfile after send_file returned result (1 or -1): remove the copy
\* fetched from the backend, then process_command's reply
M_dfile_finish(st, g, result, fs) ==
  LET p == <<st.dir, st.name>> IN
  IF st.fetch
  THEN IF HasFile(fs, p)
       THEN M_reply(st, g, IF result = 1 THEN "File downloaded"
                           ELSE "Failed to download file", RemoveFile(fs, p))
       ELSE M_reply(st, g, "Failed to download file", fs)
  ELSE M_reply(st, g, IF result = 1 THEN "File downloaded"
                      ELSE "Failed to download file", fs)

\* send_file(socket, "./smain/<path>") up to its first recv
M_send_file(st, g, fs) ==
  LET p == <<st.dir, st.name>> IN
  IF HasFile(fs, p)
  THEN Eff([st EXCEPT !.pc = "sf_size", !.rbuf = FileOf(fs, p)],
           <<NumTok(Len(FileOf(fs, p)), g)>>, <<>>, fs)
  ELSE Eff([st EXCEPT !.pc = "sf_nf"], <<NumTok(-1, g)>>, <<>>, fs)

\* process_dfile up to its first recv
M_process_dfile(st, g, fs) ==
  LET ext == strrchr_dot(st.name) IN
  IF ext = NoExt THEN M_reply(st, g, "Failed to download file", fs)
  ELSE IF IsBackendExt(ext)
  THEN Eff([st EXCEPT !.pc = "dl_cmd", !.conn = SocketFor(ext), !.fetch = TRUE],
           <<>>, <<CmdTok("dfile", st.name, st.dir, 0, g)>>, fs)
  ELSE M_send_file(st, g, fs)

\* receive_file_from_server once receive_with_acknowledgement has read the
\* size (and answered "ack"): -1, or receive_file into ./smain/<path>
M_fetch_size(st, g, buf, fs) ==
  LET size == atoi(buf)
      p == <<st.dir, st.name>>
      ack == <<TxtTok("ack", g)>>
  IN IF size = -1 \/ ~CanCreate(fs, p)
     THEN AfterBout(ack, M_send_file([st EXCEPT !.fetch = FALSE], g, fs))
     ELSE IF 0 < size
     THEN Eff([st EXCEPT !.pc = "dl_body", !.size = size, !.total = 0,
                         !.wbuf = <<>>], <<>>, ack, PutFile(fs, p, <<>>))
     ELSE Eff([st EXCEPT !.pc = "dl_reply", !.size = size], <<>>,
              ack \o ack, PutFile(fs, p, <<>>))

\* remove_file(socket, "./smain/<path>") and process_command's reply
M_remove_file(st, g, fs) ==
  LET p == <<st.dir, st.name>> IN
  IF HasFile(fs, p)
  THEN AfterOut(<<TxtTok("ack", g)>>,
                M_reply(st, g, "File removed", RemoveFile(fs, p)))
  ELSE M_reply(st, g, "Failed to remove file", fs)

\* process_rmfile up to its first recv
M_process_rmfile(st, g, fs) ==
  LET ext == strrchr_dot(st.name) IN
  IF ext = NoExt THEN M_reply(st, g, "Failed to remove file", fs)
  ELSE IF IsBackendExt(ext)
  THEN Eff([st EXCEPT !.pc = "rm_cmd", !.conn = SocketFor(ext)], <<>>,
           <<CmdTok("rmfile", st.name, st.dir, 0, g)>>, fs)
  ELSE M_remove_file(st, g, fs)

\* remove_file_from_server's strcmp(response, "File removed") on what its
\* second recv returned (the reply is sent with its terminating NUL)
IsFileRemoved(buf) == buf # <<>> /\ buf[1].k = "txt" /\ buf[1].s = "File removed"

\* process_rmfile after remove_file_from_server returned: "ack", then the reply
M_rmfile_finish(st, g, buf, fs) ==
  AfterOut(<<TxtTok("ack", g)>>,
           M_reply([st EXCEPT !.rtag = buf[1].g], g,
                   IF IsFileRemoved(buf) THEN "File removed"
                   ELSE "Failed to remove file", fs))

\* the function that sent to the client returned result (1 or -1): the rest
\* of process_dfile, process_dtar or process_display, and the reply
M_send_done(st, g, result, fs) ==
  CASE st.op = "dtar" ->
         M_reply(st, g, IF result = 1 THEN "Tar file downloaded"
                        ELSE "Failed to download tar file", fs)
    [] st.op = "display" ->
         M_reply(st, g, IF result = 1 THEN "File paths saved as file"
                        ELSE "Failed to get files", fs)
    [] OTHER -> M_dfile_finish(st, g, result, fs)

\* a faulty last branch of process_command: nothing is sent
M_invalid_silent(st, g, fs) == Eff(M_reply(st, g, "", fs).st, <<>>, <<>>, fs)

\* process_command's last branch: commands[0] is none of the five verbs
M_invalid(st, g, fs) == M_reply(st, g, "Invalid command", fs)

\* send_tar(socket, "./tar/<type>.tar") up to its first recv
M_send_tar(st, g, fs, tars) ==
  IF HasTar(tars, st.name)
  THEN Eff([st EXCEPT !.pc = "sf_size", !.rbuf = tars[st.name]],
           <<NumTok(Len(tars[st.name]), g)>>, <<>>, fs)
  ELSE Eff([st EXCEPT !.pc = "sf_nf"], <<NumTok(-1, g)>>, <<>>, fs)

\* e, with ./tar left as tars
WithTar(e, tars) == [st |-> e.st, out |-> e.out, bout |-> e.bout, fs |-> e.fs,
                     tar |-> tars]

\* process_dtar up to its first recv; st.name is the file type
M_process_dtar(st, g, fs, tars, outcome) ==
  IF st.name = "txt" \/ st.name = "pdf"
  THEN Eff([st EXCEPT !.pc = "tar_cmd",
                      !.conn = IF st.name = "txt" THEN "stext_server_socket"
                               ELSE "spdf_server_socket"],
           <<>>, <<CmdTok("dtar", "", "", 0, g)>>, fs)
  ELSE IF st.name = "c"
  THEN LET built == create_tar(tars, "c", fs, outcome) IN
       WithTar(IF outcome = "built" THEN M_send_tar(st, g, fs, built)
               ELSE M_reply(st, g, "Failed to download tar file", fs), built)
  ELSE M_send_tar(st, g, fs, tars)

\* display_files_from_server up to its first recv: the command
M_display_from(st, g, c, fs) ==
  Eff([st EXCEPT !.pc = "ls_cmd", !.conn = c], <<>>,
      <<CmdTok("display", "", st.dir, 0, g)>>, fs)

\* display_files once the three listings are in file_paths (st.wbuf): the
\* size, up to the recv of its acknowledgement
M_display_send(st, g, fs) ==
  IF Len(st.wbuf) = 0
  THEN Eff([st EXCEPT !.pc = "sf_nf"], <<NumTok(0, g)>>, <<>>, fs)
  ELSE Eff([st EXCEPT !.pc = "sf_size", !.rbuf = st.wbuf],
           <<NumTok(Len(st.wbuf), g)>>, <<>>, fs)

\* display_files_from_server returned: the next backend, or the answer
M_display_next(st, g, fs) ==
  IF st.conn = "spdf_server_socket"
  THEN M_display_from(st, g, "stext_server_socket", fs)
  ELSE M_display_send(st, g, fs)

\* display_files_from_server once the loop has ended: "ack", the last recv
M_display_loop_end(st, g, fs) ==
  Eff([st EXCEPT !.pc = "ls_reply"], <<>>, <<TxtTok("ack", g)>>, fs)

\* display_files_from_server after receive_with_acknowledgement read the
\* size (and answered "ack")
M_display_size(st, g, buf, fs) ==
  LET size == atoi(buf) IN
  AfterBout(<<TxtTok("ack", g)>>,
            IF 0 < size
            THEN Eff([st EXCEPT !.pc = "ls_body", !.size = size, !.total = 0],
                     <<>>, <<>>, fs)
            ELSE M_display_loop_end([st EXCEPT !.size = size], g, fs))

\* process_display and display_files up to the first recv: the local
\* listing, then the pdf backend
M_process_display(st, g, fs) ==
  M_display_from([st EXCEPT !.wbuf = traverse_directory(fs, st.dir)], g,
                 "spdf_server_socket", fs)

\* prcclient's "ack" and process_command, on the buffer read as a command
M_process_command(g, buf, fs, tars, outcome) ==
  LET c == tokenize_command(buf)
      st == [IdleM EXCEPT !.op = c.op, !.name = c.name, !.dir = c.dir,
                          !.size = c.n, !.count = c.count]
  IN AfterOut(<<TxtTok("ack", g)>>,
       CASE c.op = "ufile" -> M_process_ufile(st, g, fs)
         [] c.op = "dfile" -> M_process_dfile(st, g, fs)
         [] c.op = "rmfile" -> M_process_rmfile(st, g, fs)
         [] c.op = "dtar" -> M_process_dtar(st, g, fs, tars, outcome)
         [] c.op = "display" -> M_process_display(st, g, fs)
         [] OTHER -> M_invalid(st, g, fs))

\* the outcomes of the archiving utility a command line can meet
OutcomesFor(buf) ==
  IF tokenize_command(buf).op = "dtar" THEN BuildOutcomes ELSE {"built"}

\* socket c is idle: nothing unread in either direction, the backend child
\* in prcclient
Quiet(c) == m2b[c] = <<>> /\ b2m[c] = <<>> /\ be[c].pc = "cmd"

\* the backend process behind socket c has exited (its end is closed)
Down(c) == be[c].pc = "dead"
\* recv on socket c finds the stream ended: nothing unread, the peer gone
Eof(c) == Down(c) /\ b2m[c] = <<>>
\* the results of a recv that finds the stream ended: 0, or -1 (ECONNRESET)
EofResults == {0, -1}

\* a child's step takes effect: its state, its writes, ./smain.  A send on
\* a socket whose peer has exited can raise SIGPIPE, which ends the child
\* (Smain installs no handler for it).  What is written to a peer that has
\* exited is read by nobody.
M_apply(s, e) ==
  LET c == IF e.st.conn # NoConn THEN e.st.conn ELSE co[s].conn
      st == IF e.st.conn # NoConn /\ co[s].conn = NoConn
            THEN [e.st EXCEPT !.sync = Quiet(e.st.conn)] ELSE e.st
  IN /\ \E sigpipe \in IF e.bout # <<>> /\ Down(c) THEN BOOLEAN ELSE {FALSE} :
          co' = [co EXCEPT ![s] = IF sigpipe THEN [st EXCEPT !.pc = "killed"]
                                  ELSE st]
     /\ m2c' = [m2c EXCEPT ![s] = @ \o e.out]
     /\ m2b' = IF e.bout = <<>> \/ Down(c) THEN m2b
               ELSE [m2b EXCEPT ![c] = @ \o e.bout]
     /\ smain' = e.fs
     /\ tar' = IF "tar" \in DOMAIN e THEN e.tar ELSE tar

\* the child reads buffer k of its client socket
M_from_client(s, k) ==
  /\ c2m' = [c2m EXCEPT ![s] = Left(@, k)]
  /\ UNCHANGED <<cl, be, b2m, spdf, ncmd, main>>

\* the child reads buffer k of the backend socket it uses
M_from_backend(s, k) ==
  /\ b2m' = [b2m EXCEPT ![co[s].conn] = Left(@, k)]
  /\ UNCHANGED <<cl, be, c2m, spdf, ncmd, main>>

\* the child's recv on its backend socket returns r from EofResults, and
\* the child goes on with failed (r < 0 where the code tests for it) or ok
M_backend_eof(s, failed, ok) ==
  /\ \E r \in EofResults : M_apply(s, IF r < 0 THEN failed ELSE ok)
  /\ UNCHANGED <<cl, be, c2m, b2m, spdf, ncmd, main>>

\* prcclient: receive_with_acknowledgement(client_socket, "ack", command),
\* then process_command
Smain_prcclient(s) ==
  /\ co[s].pc = "cmd"
  /\ \E k \in RecvLens(c2m[s]) :
       \E outcome \in OutcomesFor(Taken(c2m[s], k)) :
         /\ M_apply(s, M_process_command(s, Taken(c2m[s], k), smain, tar,
                                          outcome))
         /\ M_from_client(s, k)

\* the client process of session s has ended and its socket is closed
Gone(s) == cl[s].pc = "exited"

\* what recv returns to a child whose client is gone and has left nothing to
\* read: -1 (ECONNRESET) when the client closed with bytes unread or bytes
\* were written to it after it closed, 0 otherwise
LostResult(s) == IF m2c[s] # <<>> THEN -1 ELSE 0

\* what can follow the call of process_command on a buffer that recv did
\* not fill.  After recv returned 0 the buffer is "", tokenize_command
\* returns 0 and commands[0] was never assigned: the comparisons fault
\* ("killed"), or match no verb and "Invalid command" is sent ("invalid",
\* unless that send raises SIGPIPE, "killed"), or go on in a handler with
\* arguments that were never assigned ("lost").  After recv returned -1 the
\* buffer is what the loop's previous turn left: a handler runs on
\* arguments that were never assigned ("lost"), and a send raises SIGPIPE
\* ("killed").
BlindOutcomes(r) ==
  IF r = 0 THEN {"killed", "invalid", "lost"} ELSE {"killed", "lost"}

\* prcclient when the client is gone: receive_with_acknowledgement returns
\* 0 (after the "ack" when recv returned 0, at once when recv failed), which
\* is not < 0, and process_command is called
Smain_prcclient_lost(s) ==
  /\ co[s].pc = "cmd" /\ Gone(s) /\ c2m[s] = <<>>
  /\ LET r == LostResult(s)
         st == [co[s] EXCEPT !.rcv = r, !.blind = TRUE,
                             !.count = IF r = 0 THEN 0 ELSE @]
         ack == IF r = 0 THEN <<TxtTok("ack", s)>> ELSE <<>>
     IN \E outcome \in BlindOutcomes(r) :
          /\ co' = [co EXCEPT ![s] =
                      IF outcome = "invalid" THEN M_invalid(st, s, smain).st
                      ELSE [st EXCEPT !.pc = outcome]]
          /\ m2c' = [m2c EXCEPT ![s] =
                       @ \o ack \o (IF outcome = "invalid"
                                    THEN M_invalid(st, s, smain).out ELSE <<>>)]
  /\ UNCHANGED <<cl, be, c2m, m2b, b2m, smain, spdf, tar, ncmd, main>>

\* receive_file's loop when the client is gone: recv returns 0 and the
\* loop's test finds the counter as it was, or recv fails, receive_file
\* closes the file and returns -1, and process_ufile goes on
Smain_receive_file_eof(s) ==
  /\ co[s].pc = "ubody" /\ Gone(s) /\ c2m[s] = <<>>
  /\ LET r == LostResult(s)
         st == [co[s] EXCEPT !.rcv = r, !.total = IF r < 0 THEN @ ELSE @ + r]
     IN /\ M_apply(s, IF r < 0
                      THEN M_ufile_forward(st, s,
                             PutFile(smain, <<M_ufile_dest(st), st.name>>, st.wbuf))
                      ELSE IF ~LoopEnded(st.total, st.size)
                      THEN Eff(st, <<>>, <<>>, smain)
                      ELSE M_receive_file_end(st, s, smain))
        /\ M_from_client(s, 0)

\* receive_file's loop on the client socket: one recv, fwrite
Smain_receive_file(s) ==
  /\ co[s].pc = "ubody"
  /\ \E k \in RecvLens(c2m[s]) :
       LET buf == Taken(c2m[s], k)
           st == [co[s] EXCEPT !.total = @ + BufBytes(buf),
                               !.wbuf = @ \o Written(buf)]
       IN /\ M_apply(s, IF ~LoopEnded(st.total, st.size)
                        THEN Eff(st, <<>>, <<>>, smain)
                        ELSE M_receive_file_end(st, s, smain))
          /\ M_from_client(s, k)

\* send_file_to_server: the recv of send_with_acknowledgement(command_str),
\* then send_file up to its recv
Smain_send_file_to_server(s) ==
  /\ co[s].pc = "fwd_cmd"
  /\ IF Eof(co[s].conn)
     THEN M_backend_eof(s, M_ufile_finish(co[s], s, smain),
                        M_forward_send_file(co[s], s, smain))
     ELSE \E k \in RecvLens(b2m[co[s].conn]) :
            /\ M_apply(s, M_forward_send_file(co[s], s, smain))
            /\ M_from_backend(s, k)

\* send_file to the backend: the recv of the size handshake, then the body
Smain_forward_body(s) ==
  /\ co[s].pc = "fwd_size"
  /\ LET body == Eff([co[s] EXCEPT !.pc = "fwd_ack"], <<>>,
                     BodyToks(co[s].rbuf, s), smain)
     IN IF Eof(co[s].conn)
        THEN M_backend_eof(s, M_ufile_finish(co[s], s, smain), body)
        ELSE \E k \in RecvLens(b2m[co[s].conn]) :
               M_apply(s, body) /\ M_from_backend(s, k)

\* send_file to the backend: the recv after the body (the terminal ack)
Smain_forward_ack(s) ==
  /\ co[s].pc = "fwd_ack"
  /\ LET next == Eff([co[s] EXCEPT !.pc = "fwd_reply"], <<>>, <<>>, smain)
     IN IF Eof(co[s].conn)
        THEN M_backend_eof(s, M_ufile_finish(co[s], s, smain), next)
        ELSE \E k \in RecvLens(b2m[co[s].conn]) :
               M_apply(s, next) /\ M_from_backend(s, k)

\* send_file_to_server's last recv (the backend's reply), then the rest of
\* process_ufile
Smain_forward_reply(s) ==
  /\ co[s].pc = "fwd_reply"
  /\ IF Eof(co[s].conn)
     THEN M_backend_eof(s, M_ufile_finish(co[s], s, smain),
                        M_ufile_finish(co[s], s, smain))
     ELSE \E k \in RecvLens(b2m[co[s].conn]) :
            /\ M_apply(s, M_ufile_finish(co[s], s, smain))
            /\ M_from_backend(s, k)

\* send_file to the backend found no staged file: the recv after "-1"
Smain_forward_notfound(s) ==
  /\ co[s].pc = "fwd_nf"
  /\ IF Eof(co[s].conn)
     THEN M_backend_eof(s, M_ufile_finish(co[s], s, smain),
                        M_ufile_finish(co[s], s, smain))
     ELSE \E k \in RecvLens(b2m[co[s].conn]) :
            /\ M_apply(s, M_ufile_finish(co[s], s, smain))
            /\ M_from_backend(s, k)

\* receive_file_from_server: the recv of send_with_acknowledgement(command_str)
Smain_fetch_cmd(s) ==
  /\ co[s].pc = "dl_cmd"
  /\ \E k \in RecvLens(b2m[co[s].conn]) :
       /\ M_apply(s, Eff([co[s] EXCEPT !.pc = "dl_size"], <<>>, <<>>, smain))
       /\ M_from_backend(s, k)

\* receive_file_from_server: receive_with_acknowledgement of the size
Smain_fetch_size(s) ==
  /\ co[s].pc = "dl_size"
  /\ \E k \in RecvLens(b2m[co[s].conn]) :
       /\ M_apply(s, M_fetch_size(co[s], s, Taken(b2m[co[s].conn], k), smain))
       /\ M_from_backend(s, k)

\* receive_file's loop on the backend socket
Smain_fetch_body(s) ==
  /\ co[s].pc = "dl_body"
  /\ \E k \in RecvLens(b2m[co[s].conn]) :
       LET buf == Taken(b2m[co[s].conn], k)
           st == [co[s] EXCEPT !.total = @ + BufBytes(buf),
                               !.wbuf = @ \o Written(buf)]
       IN /\ M_apply(s, IF ~LoopEnded(st.total, st.size)
                        THEN Eff(st, <<>>, <<>>, smain)
                        ELSE Eff([st EXCEPT !.pc = "dl_reply"], <<>>,
                                 <<TxtTok("ack", s)>>,
                                 PutFile(smain, <<st.dir, st.name>>, st.wbuf)))
          /\ M_from_backend(s, k)

\* receive_file_from_server's last recv, then send_file to the client
Smain_fetch_reply(s) ==
  /\ co[s].pc = "dl_reply"
  /\ \E k \in RecvLens(b2m[co[s].conn]) :
       /\ M_apply(s, M_send_file(co[s], s, smain))
       /\ M_from_backend(s, k)

\* what the fread loop of send_file or send_tar reads, after the size was
\* acknowledged, from the file it opened before announcing the size.  tar
\* rewrites ./tar/<type>.tar in place, so an archive is read as it is now;
\* rbuf stands for the other files and for display's file_paths
M_body_read(st, tars) ==
  IF st.op = "dtar" /\ HasTar(tars, st.name) THEN tars[st.name] ELSE st.rbuf

\* send_file to the client: the recv of the size handshake, then the body
Smain_send_file_body(s) ==
  /\ co[s].pc = "sf_size"
  /\ \E k \in RecvLens(c2m[s]) :
       /\ M_apply(s, Eff([co[s] EXCEPT !.pc = "sf_ack"],
                         BodyToks(M_body_read(co[s], tar), s), <<>>, smain))
       /\ M_from_client(s, k)

\* process_dtar "c" once waitpid has returned: create_tar's result, then
\* sleep(1) and send_tar, or the failure reply
M_create_tar_exit(st, g, fs, tars, outcome) ==
  LET built == create_tar(tars, "c", fs, outcome) IN
  WithTar(IF outcome = "built" THEN M_send_tar(st, g, fs, built)
          ELSE M_reply(st, g, "Failed to download tar file", fs), built)

\* prcclient and process_command where other children use ./tar at the same
\* time: for "dtar c" up to create_tar's waitpid, with tar started and its
\* archive opened (and so emptied); for the rest as Smain_prcclient
Smain_prcclient_build(s) ==
  /\ co[s].pc = "cmd"
  /\ \E k \in RecvLens(c2m[s]) :
       LET buf == Taken(c2m[s], k)
           c == tokenize_command(buf)
           st == [IdleM EXCEPT !.op = c.op, !.name = c.name, !.dir = c.dir,
                               !.size = c.n, !.count = c.count,
                               !.pc = "tar_wait"]
       IN /\ M_apply(s, IF c.op = "dtar" /\ c.name = "c"
                        THEN WithTar(Eff(st, <<TxtTok("ack", s)>>, <<>>, smain),
                                     PutTar(tar, "c", <<>>))
                        ELSE M_process_command(s, buf, smain, tar, "built"))
          /\ M_from_client(s, k)

\* create_tar's waitpid returns: tar has exited
Smain_create_tar_exit(s) ==
  /\ co[s].pc = "tar_wait"
  /\ \E outcome \in BuildOutcomes :
       M_apply(s, M_create_tar_exit(co[s], s, smain, tar, outcome))
  /\ UNCHANGED <<cl, be, c2m, b2m, spdf, ncmd, main>>

\* send_file to the client: the recv after the body, then process_dfile's end
Smain_send_file_ack(s) ==
  /\ co[s].pc = "sf_ack"
  /\ \E k \in RecvLens(c2m[s]) :
       /\ M_apply(s, M_send_done(co[s], s, 1, smain))
       /\ M_from_client(s, k)

\* send_file to the client found no file: the recv after "-1"
Smain_send_file_notfound(s) ==
  /\ co[s].pc = "sf_nf"
  /\ \E k \in RecvLens(c2m[s]) :
       /\ M_apply(s, M_send_done(co[s], s, -1, smain))
       /\ M_from_client(s, k)

\* remove_file_from_server: the recv of send_with_acknowledgement(command_str)
Smain_remove_cmd(s) ==
  /\ co[s].pc = "rm_cmd"
  /\ \E k \in RecvLens(b2m[co[s].conn]) :
       /\ M_apply(s, Eff([co[s] EXCEPT !.pc = "rm_reply"], <<>>, <<>>, smain))
       /\ M_from_backend(s, k)

\* remove_file_from_server's second recv and the rest of process_rmfile
Smain_remove_reply(s) ==
  /\ co[s].pc = "rm_reply"
  /\ \E k \in RecvLens(b2m[co[s].conn]) :
       /\ M_apply(s, M_rmfile_finish(co[s], s, Taken(b2m[co[s].conn], k), smain))
       /\ M_from_backend(s, k)

\* process_dtar: the recv of send_with_acknowledgement("dtar")
Smain_dtar_cmd(s) ==
  /\ co[s].pc = "tar_cmd"
  /\ \E k \in RecvLens(b2m[co[s].conn]) :
       /\ M_apply(s, Eff([co[s] EXCEPT !.pc = "tar_reply"], <<>>, <<>>, smain))
       /\ M_from_backend(s, k)

\* process_dtar: the recv of the backend's response, sleep(1), send_tar
Smain_dtar_reply(s) ==
  /\ co[s].pc = "tar_reply"
  /\ \E k \in RecvLens(b2m[co[s].conn]) :
       /\ M_apply(s, M_send_tar(co[s], s, smain, tar))
       /\ M_from_backend(s, k)

\* display_files_from_server: the recv of send_with_acknowledgement(command)
Smain_display_cmd(s) ==
  /\ co[s].pc = "ls_cmd"
  /\ \E k \in RecvLens(b2m[co[s].conn]) :
       /\ M_apply(s, Eff([co[s] EXCEPT !.pc = "ls_size"], <<>>, <<>>, smain))
       /\ M_from_backend(s, k)

\* display_files_from_server: receive_with_acknowledgement of the size
Smain_display_size(s) ==
  /\ co[s].pc = "ls_size"
  /\ \E k \in RecvLens(b2m[co[s].conn]) :
       /\ M_apply(s, M_display_size(co[s], s, Taken(b2m[co[s].conn], k), smain))
       /\ M_from_backend(s, k)

\* display_files_from_server's loop: one recv, strncat
Smain_display_body(s) ==
  /\ co[s].pc = "ls_body"
  /\ \E k \in RecvLens(b2m[co[s].conn]) :
       LET buf == Taken(b2m[co[s].conn], k)
           st == [co[s] EXCEPT !.total = @ + BufBytes(buf),
                               !.wbuf = @ \o Written(buf)]
       IN /\ M_apply(s, IF ~LoopEnded(st.total, st.size) THEN Eff(st, <<>>, <<>>, smain)
                        ELSE M_display_loop_end(st, s, smain))
          /\ M_from_backend(s, k)

\* display_files_from_server's last recv, then the next backend or the answer
Smain_display_reply(s) ==
  /\ co[s].pc = "ls_reply"
  /\ \E k \in RecvLens(b2m[co[s].conn]) :
       /\ M_apply(s, M_display_next(co[s], s, smain))
       /\ M_from_backend(s, k)

(***************************************************************************)
(* Spdf (src/unnamed/part_000).  Both of Smain's sockets connect to port   *)
(* 4014 (STEXT_SERVER_PORT = SPDF_SERVER_PORT), where Spdf listens: each   *)
(* connection is served by its own forked prcclient of Spdf, on ./spdf.    *)
(* g (the tag of the command being served), rep (the last result reply     *)
(* sent) and hs (the length read in receive_file's handshake, which the    *)
(* code reads and does not use) are history.                               *)
(***************************************************************************)
IdleB ==
  [pc |-> "cmd", op |-> "", name |-> "", dir |-> "", size |-> 0, total |-> 0,
   wbuf |-> <<>>, rbuf |-> <<>>, g |-> 0, rep |-> "", hs |-> 0]

\* st the child's next state, out what it writes, fs the new ./spdf
BEff(st, out, fs) == [st |-> st, out |-> out, fs |-> fs]
BAfterOut(pre, e) == [e EXCEPT !.out = pre \o @]

\* process_command's send of the result reply; back in prcclient
B_reply(st, text, fs) ==
  BEff([IdleB EXCEPT !.op = st.op, !.name = st.name, !.dir = st.dir,
                     !.g = st.g, !.rep = text], <<TxtTok(text, st.g)>>, fs)

\* a faulty end of receive_file: the last byte received is not written
B_receive_file_end_trunc(st, fs) ==
  BAfterOut(<<TxtTok("ack", st.g)>>,
            B_reply(st, "File received ",
                    PutFile(fs, <<st.dir, st.name>>,
                            SubSeq(st.wbuf, 1, Len(st.wbuf) - 1))))

\* receive_file once the loop has ended: "ack", fclose; then process_ufile
\* returns 1 and process_command sends 14 bytes of "File received by server"
B_receive_file_end(st, fs) ==
  BAfterOut(<<TxtTok("ack", st.g)>>,
            B_reply(st, "File received ",
                    PutFile(fs, <<st.dir, st.name>>, st.wbuf)))

\* receive_file after receive_with_acknowledgement read the size: fopen, loop
B_receive_file_open(st, buf, fs) ==
  BAfterOut(<<TxtTok("ack", st.g)>>,
            IF ~CanCreate(fs, <<st.dir, st.name>>)
            \* receive_file returns -1 at fopen; process_ufile returns 1
            THEN B_reply(st, "File received ", fs)
            ELSE IF 0 < st.size
            THEN BEff([st EXCEPT !.pc = "ubody", !.total = 0, !.wbuf = <<>>,
                                 !.hs = atoi(buf)],
                      <<>>, PutFile(fs, <<st.dir, st.name>>, <<>>))
            ELSE B_receive_file_end(st, PutFile(fs, <<st.dir, st.name>>, <<>>)))

\* send_file("./spdf/<path>") up to its first recv
B_send_file(st, fs) ==
  LET p == <<st.dir, st.name>> IN
  IF HasFile(fs, p)
  THEN BEff([st EXCEPT !.pc = "sf_size", !.rbuf = FileOf(fs, p)],
            <<NumTok(Len(FileOf(fs, p)), st.g)>>, fs)
  ELSE BEff([st EXCEPT !.pc = "sf_nf"], <<NumTok(-1, st.g)>>, fs)

\* process_rmfile, remove_file and process_command's reply
B_process_rmfile(st, fs) ==
  LET p == <<st.dir, st.name>> IN
  IF HasFile(fs, p) THEN B_reply(st, "File removed", RemoveFile(fs, p))
  ELSE B_reply(st, "Failed to remove file", fs)

\* the function that sent to Smain returned result (1 or -1): the reply of
\* process_command
B_send_done(st, result, fs) ==
  IF st.op = "display"
  THEN B_reply(st, IF result = 1 THEN "File paths saved as file"
                   ELSE "Failed to get files", fs)
  ELSE B_reply(st, IF result = 1 THEN "File downloaded"
                   ELSE "Failed to download file", fs)

\* process_dtar: create_tar("./tar/pdf.tar", "./spdf"), and the reply
B_process_dtar(st, fs, tars, outcome) ==
  LET e == B_reply(st, IF outcome = "built" THEN "Tar file downloaded"
                       ELSE "Failed to download tar file", fs)
  IN [st |-> e.st, out |-> e.out, fs |-> e.fs,
      tar |-> create_tar(tars, "pdf", fs, outcome)]

\* process_display and display_files up to the first recv
B_display_files(st, fs) ==
  LET file_paths == traverse_directory(fs, st.dir) IN
  IF Len(file_paths) = 0
  THEN BEff([st EXCEPT !.pc = "sf_nf"], <<NumTok(0, st.g)>>, fs)
  ELSE BEff([st EXCEPT !.pc = "sf_size", !.rbuf = file_paths],
            <<NumTok(Len(file_paths), st.g)>>, fs)

\* process_command's last branch: commands[0] is none of the five verbs
B_invalid(st, fs) == B_reply(st, "Invalid command", fs)

\* prcclient's "ack" and process_command, on the buffer read as a command
B_process_command(buf, fs, tars, outcome) ==
  LET c == tokenize_command(buf)
      st == [IdleB EXCEPT !.op = c.op, !.name = c.name, !.dir = c.dir,
                          !.size = c.n, !.g = buf[1].g]
  IN BAfterOut(<<TxtTok("ack", st.g)>>,
       CASE c.op = "ufile" ->
              BEff([st EXCEPT !.pc = "usize"], <<>>, create_directories(fs, st.dir))
         [] c.op = "dfile" -> B_send_file(st, fs)
         [] c.op = "rmfile" -> B_process_rmfile(st, fs)
         [] c.op = "dtar" -> B_process_dtar(st, fs, tars, outcome)
         [] c.op = "display" -> B_display_files(st, fs)
         [] OTHER -> B_invalid(st, fs))

\* the child serving socket c reads buffer k and takes effect e
B_apply(c, k, e) ==
  /\ be' = [be EXCEPT ![c] = e.st]
  /\ m2b' = [m2b EXCEPT ![c] = Left(@, k)]
  /\ b2m' = [b2m EXCEPT ![c] = @ \o e.out]
  /\ spdf' = e.fs
  /\ tar' = IF "tar" \in DOMAIN e THEN e.tar ELSE tar
  /\ UNCHANGED <<cl, co, c2m, m2c, smain, ncmd, main>>

\* SIGINT reaches the backend's processes: handle_sigint closes and exits;
\* what the process had not read is discarded
Spdf_exit(c) ==
  /\ ~Down(c)
  /\ be' = [be EXCEPT ![c] = [IdleB EXCEPT !.pc = "dead"]]
  /\ m2b' = [m2b EXCEPT ![c] = <<>>]
  /\ UNCHANGED <<cl, co, c2m, m2c, b2m, smain, spdf, tar, ncmd, main>>

\* prcclient: receive_with_acknowledgement, then process_command
Spdf_prcclient(c) ==
  /\ be[c].pc = "cmd"
  /\ \E k \in RecvLens(m2b[c]) :
       \E outcome \in OutcomesFor(Taken(m2b[c], k)) :
         B_apply(c, k, B_process_command(Taken(m2b[c], k), spdf, tar, outcome))

\* receive_file: receive_with_acknowledgement of the size, fopen
Spdf_receive_file_size(c) ==
  /\ be[c].pc = "usize"
  /\ \E k \in RecvLens(m2b[c]) :
       B_apply(c, k, B_receive_file_open(be[c], Taken(m2b[c], k), spdf))

\* receive_file's loop: one recv, fwrite
Spdf_receive_file(c) ==
  /\ be[c].pc = "ubody"
  /\ \E k \in RecvLens(m2b[c]) :
       LET buf == Taken(m2b[c], k)
           st == [be[c] EXCEPT !.total = @ + BufBytes(buf),
                               !.wbuf = @ \o Written(buf)]
       IN B_apply(c, k, IF ~LoopEnded(st.total, st.size) THEN BEff(st, <<>>, spdf)
                        ELSE B_receive_file_end(st, spdf))

\* send_file: the recv of the size handshake, then the body
Spdf_send_file_body(c) ==
  /\ be[c].pc = "sf_size"
  /\ \E k \in RecvLens(m2b[c]) :
       B_apply(c, k, BEff([be[c] EXCEPT !.pc = "sf_ack"],
                          BodyToks(be[c].rbuf, be[c].g), spdf))

\* send_file: the recv after the body, then process_command's reply
Spdf_send_file_ack(c) ==
  /\ be[c].pc = "sf_ack"
  /\ \E k \in RecvLens(m2b[c]) :
       B_apply(c, k, B_send_done(be[c], 1, spdf))

\* send_file found no file: the recv after "-1", then the failure reply
Spdf_send_file_notfound(c) ==
  /\ be[c].pc = "sf_nf"
  /\ \E k \in RecvLens(m2b[c]) :
       B_apply(c, k, B_send_done(be[c], -1, spdf))

(***************************************************************************)
(* The client (src/client24s.c).  pc names the recv() it is blocked in, or *)
(* "prompt".  file is the local file being uploaded; size, total and got   *)
(* belong to download_file (got is the local file it writes); resp is the  *)
(* response printed for the last command.  prev (the command before the    *)
(* current one and its response) is history.                               *)
(***************************************************************************)
NoCmd == [op |-> "", name |-> "", dir |-> "", resp |-> ""]
IdleC ==
  [pc |-> "prompt", op |-> "", name |-> "", dir |-> "", file |-> <<>>,
   size |-> 0, total |-> 0, got |-> <<>>, resp |-> "", prev |-> NoCmd]

SupportedExt(ext) == ext = ".txt" \/ ext = ".c" \/ ext = ".pdf"

\* the client's state when a new command line is typed
C_typed(st, op, name, dir) ==
  [st EXCEPT !.op = op, !.name = name, !.dir = dir, !.resp = "",
             !.size = 0, !.total = 0,
             !.prev = [op |-> st.op, name |-> st.name, dir |-> st.dir,
                       resp |-> st.resp]]

\* client s moves to st and writes out
C_apply(s, st, out) ==
  /\ cl' = [cl EXCEPT ![s] = st]
  /\ c2m' = [c2m EXCEPT ![s] = @ \o out]

\* client s reads buffer k of its socket
C_recv(s, k) ==
  /\ m2c' = [m2c EXCEPT ![s] = Left(@, k)]
  /\ UNCHANGED <<co, be, m2b, b2m, smain, spdf, tar, ncmd, main>>

\* recv finds the stream ended: nothing unread, the Smain child gone
C_eof(s) == co[s].pc = "killed" /\ m2c[s] = <<>>

\* a command line is typed at the prompt of client s
C_prompt(s) ==
  /\ cl[s].pc = "prompt"
  /\ ncmd < MaxCmds
  /\ ncmd' = ncmd + 1
  /\ UNCHANGED <<co, be, m2c, m2b, b2m, smain, spdf, tar, main>>

\* process_command "ufile name dir": the checks, then send_file up to the
\* recv of send_with_acknowledgement
Client_ufile(s) ==
  /\ C_prompt(s)
  /\ \E name \in ClientNames, dir \in ClientDirs, content \in Contents :
       LET st == C_typed(cl[s], "ufile", name, dir) IN
       IF strrchr_dot(name) = NoExt
       THEN C_apply(s, [st EXCEPT !.resp = "Invalid file extension"], <<>>)
       ELSE IF ~SupportedExt(strrchr_dot(name))
       THEN C_apply(s, [st EXCEPT !.resp = "Invalid file extension, supported"],
                    <<>>)
       ELSE C_apply(s, [st EXCEPT !.pc = "u_cmd", !.file = content],
                    <<CmdTok("ufile", name, dir, Len(content), s)>>)

\* a peer other than client24s: the same upload exchange for a file name
\* that client24s refuses to send
Peer_ufile(s) ==
  /\ C_prompt(s)
  /\ \E name \in ClientNames, dir \in ClientDirs, content \in Contents :
       /\ ~SupportedExt(strrchr_dot(name))
       /\ C_apply(s, [C_typed(cl[s], "ufile", name, dir) EXCEPT
                        !.pc = "u_cmd", !.file = content],
                  <<CmdTok("ufile", name, dir, Len(content), s)>>)

\* "ufile name dir" where dir names a regular file of the store that name
\* is routed to
Client_ufile_under_file(s) ==
  /\ C_prompt(s)
  /\ \E name \in {"n.c", "b.txt"}, content \in Contents :
       /\ HasFile(IF strrchr_dot(name) = ".c" THEN smain ELSE spdf,
                  <<RootDir, FileDirFor(name)>>)
       /\ C_apply(s, [C_typed(cl[s], "ufile", name, FileDirFor(name)) EXCEPT
                        !.pc = "u_cmd", !.file = content],
                  <<CmdTok("ufile", name, FileDirFor(name), Len(content), s)>>)

\* "ufile a.txt ." with a local file of one or two bytes
Client_ufile_same(s) ==
  /\ C_prompt(s)
  /\ \E content \in {<<1>>, <<2, 1>>} :
       C_apply(s, [C_typed(cl[s], "ufile", "a.txt", RootDir) EXCEPT
                     !.pc = "u_cmd", !.file = content],
               <<CmdTok("ufile", "a.txt", RootDir, Len(content), s)>>)

\* send_file: the recv of send_with_acknowledgement, then the body
Client_send_file_body(s) ==
  /\ cl[s].pc = "u_cmd"
  /\ \E k \in RecvLens(m2c[s]) :
       /\ C_apply(s, [cl[s] EXCEPT !.pc = "u_ack"], BodyToks(cl[s].file, s))
       /\ C_recv(s, k)

\* send_file: the recv of send_with_acknowledgement returns and a signal
\* ends the process before the loop has sent its first buffer; the kernel
\* closes the socket
Client_send_file_cut(s) ==
  /\ cl[s].pc = "u_cmd"
  /\ \E k \in RecvLens(m2c[s]) :
       /\ C_apply(s, [cl[s] EXCEPT !.pc = "exited"], <<>>)
       /\ C_recv(s, k)

\* send_file: the recv after the body
Client_send_file_ack(s) ==
  /\ cl[s].pc = "u_ack"
  /\ IF C_eof(s)
     THEN C_apply(s, [cl[s] EXCEPT !.pc = "resp"], <<>>) /\ C_recv(s, 0)
     ELSE \E k \in RecvLens(m2c[s]) :
            /\ C_apply(s, [cl[s] EXCEPT !.pc = "resp"], <<>>)
            /\ C_recv(s, k)

\* process_command's recv of the server response, printed at the prompt
Client_response(s) ==
  /\ cl[s].pc = "resp"
  /\ \E k \in IF C_eof(s) THEN {0} ELSE RecvLens(m2c[s]) :
       /\ C_apply(s, [cl[s] EXCEPT !.pc = "prompt",
                                   !.resp = ReplyText(Taken(m2c[s], k))], <<>>)
       /\ C_recv(s, k)

\* process_command "dfile path": send_with_acknowledgement's send
Client_dfile(s) ==
  /\ C_prompt(s)
  /\ \E name \in ClientNames, dir \in ClientDirs :
       C_apply(s, [C_typed(cl[s], "dfile", name, dir) EXCEPT !.pc = "d_cmd"],
               <<CmdTok("dfile", name, dir, 0, s)>>)

\* process_command "dfile": the recv of send_with_acknowledgement
Client_dfile_cmd(s) ==
  /\ cl[s].pc = "d_cmd"
  /\ \E k \in RecvLens(m2c[s]) :
       /\ C_apply(s, [cl[s] EXCEPT !.pc = "d_size"], <<>>)
       /\ C_recv(s, k)

\* display_files after receive_with_acknowledgement read the size into a
\* size_t: 0 ends it, a negative number is a length no transfer reaches
C_display_size(st, size) ==
  IF size = 0 THEN [st EXCEPT !.pc = "resp", !.size = 0]
  ELSE [st EXCEPT !.pc = "d_body", !.total = 0, !.got = <<>>,
                  !.size = IF size < 0 THEN 2147483647 ELSE size]

\* download_file or display_files: receive_with_acknowledgement of the
\* size, fopen
Client_download_file_size(s) ==
  /\ cl[s].pc = "d_size"
  /\ \E k \in RecvLens(m2c[s]) :
       LET size == atoi(Taken(m2c[s], k))
           ack == <<TxtTok("ack", s)>>
       IN /\ IF cl[s].op = "display"
             THEN C_apply(s, C_display_size(cl[s], size), ack)
             ELSE IF size = -1
             THEN C_apply(s, [cl[s] EXCEPT !.pc = "resp", !.size = size], ack)
             ELSE IF 0 < size
             THEN C_apply(s, [cl[s] EXCEPT !.pc = "d_body", !.size = size,
                                           !.total = 0, !.got = <<>>], ack)
             ELSE C_apply(s, [cl[s] EXCEPT !.pc = "resp", !.size = size,
                                           !.got = <<>>], ack \o ack)
          /\ C_recv(s, k)

\* download_file's loop: one recv, fwrite; the "ack" after the loop
Client_download_file(s) ==
  /\ cl[s].pc = "d_body"
  /\ \E k \in RecvLens(m2c[s]) :
       LET buf == Taken(m2c[s], k)
           st == [cl[s] EXCEPT !.total = @ + BufBytes(buf),
                               !.got = @ \o Written(buf)]
       IN /\ IF ~LoopEnded(st.total, st.size) THEN C_apply(s, st, <<>>)
             ELSE C_apply(s, [st EXCEPT !.pc = "resp"], <<TxtTok("ack", s)>>)
          /\ C_recv(s, k)

\* process_command "dtar filetype": send_with_acknowledgement's send
TarTypes == {"c", "txt", "pdf"}
Client_dtar(s) ==
  /\ C_prompt(s)
  /\ \E type \in TarTypes :
       C_apply(s, [C_typed(cl[s], "dtar", type, "") EXCEPT !.pc = "d_cmd"],
               <<CmdTok("dtar", type, "", 0, s)>>)

\* process_command "display path": display_files' send
Client_display(s) ==
  /\ C_prompt(s)
  /\ \E dir \in ListDirs :
       C_apply(s, [C_typed(cl[s], "display", "", dir) EXCEPT !.pc = "d_cmd"],
               <<CmdTok("display", "", dir, 0, s)>>)

\* process_command "rmfile path": the check, then remove_file's send
Client_rmfile(s) ==
  /\ C_prompt(s)
  /\ \E name \in ClientNames, dir \in ClientDirs :
       LET st == C_typed(cl[s], "rmfile", name, dir) IN
       IF strrchr_dot(name) = NoExt
       THEN C_apply(s, [st EXCEPT !.resp = "Invalid file path"], <<>>)
       ELSE C_apply(s, [st EXCEPT !.pc = "r_cmd"],
                    <<CmdTok("rmfile", name, dir, 0, s)>>)

\* a peer other than client24s: "rmfile path extra", a delete with one
\* argument too many, then the exchange of remove_file
Peer_rmfile_extra(s) ==
  /\ C_prompt(s)
  /\ \E name \in ClientNames, dir \in ClientDirs :
       /\ strrchr_dot(name) # NoExt
       /\ C_apply(s, [C_typed(cl[s], "rmfile", name, dir) EXCEPT !.pc = "r_cmd"],
                  <<ArgTok("rmfile", name, dir, 0, 3, s)>>)

\* a peer other than client24s: a line whose first token is no verb, then
\* a recv for the acknowledgement and one for the reply
Peer_unknown(s) ==
  /\ C_prompt(s)
  /\ C_apply(s, [C_typed(cl[s], "bogus", "", "") EXCEPT !.pc = "r_ack"],
             <<ArgTok("bogus", "", "", 0, 1, s)>>)

\* the client process ends once its child is back in prcclient with nothing
\* to read: "exit" typed at the prompt, or a signal while the reply to the
\* last command is awaited; main's close, or the kernel's
Client_gone(s) ==
  /\ cl[s].pc \in {"prompt", "resp"}
  /\ co[s].pc = "cmd" /\ c2m[s] = <<>>
  /\ cl' = [cl EXCEPT ![s] = [@ EXCEPT !.pc = "exited"]]
  /\ UNCHANGED <<co, be, c2m, m2c, m2b, b2m, smain, spdf, tar, ncmd, main>>

\* remove_file: the recv of send_with_acknowledgement
Client_remove_file_cmd(s) ==
  /\ cl[s].pc = "r_cmd"
  /\ \E k \in RecvLens(m2c[s]) :
       /\ C_apply(s, [cl[s] EXCEPT !.pc = "r_ack"], <<>>)
       /\ C_recv(s, k)

\* remove_file: the recv of the acknowledgement
Client_remove_file_ack(s) ==
  /\ cl[s].pc = "r_ack"
  /\ \E k \in RecvLens(m2c[s]) :
       /\ C_apply(s, [cl[s] EXCEPT !.pc = "resp"], <<>>)
       /\ C_recv(s, k)

(***************************************************************************)
(* The initial states: every process has just started (the clients at the  *)
(* prompt, the children in prcclient), the connections carry nothing, and  *)
(* the namespace roots hold what earlier runs left on disk: nothing, or a  *)
(* few files.                                                              *)
(***************************************************************************)
file_c == <<1>>
file_a == <<1>>
file_b == <<2>>
file_r == <<2, 1>>
OldSmain == [dirs |-> {RootDir}, files |-> (<<RootDir, "n.c">> :> file_c)]
OldSpdf ==
  [dirs |-> {RootDir, "notes"},
   files |-> (<<RootDir, "a.txt">> :> file_a) @@ (<<RootDir, "b.txt">> :> file_b)
             @@ (<<"notes", "r.pdf">> :> file_r)]

\* ./tar after an earlier run: an archive built when ./spdf was empty
OldTar == PutTar(NoTars, "pdf", TarOf(EmptyFS))

\* a faulty fork: the child opens backend connections of its own
Inherited_fresh(sock) == [c \in Conns |-> sock[c] + 1]

\* fork(): the child starts with a copy of the parent's globals, the two
\* backend sockets among them
Inherited(sock) == sock

\* main() once both backends are connected, the listening socket is set up
\* and every session's connection has been accepted and given its child
Started ==
  [pc |-> "accept", sock |-> [c \in Conns |-> 1], nconn |-> [c \in Conns |-> 1],
   child |-> [s \in Sessions |-> Inherited([c \in Conns |-> 1])],
   busy |-> [s \in Sessions |-> {}]]

Init ==
  /\ cl = [s \in Sessions |-> IdleC]
  /\ co = [s \in Sessions |-> IdleM]
  /\ be = [c \in Conns |-> IdleB]
  /\ c2m = [s \in Sessions |-> <<>>]
  /\ m2c = [s \in Sessions |-> <<>>]
  /\ m2b = [c \in Conns |-> <<>>]
  /\ b2m = [c \in Conns |-> <<>>]
  /\ \E old \in BOOLEAN :
       /\ smain = IF old THEN OldSmain ELSE EmptyFS
       /\ spdf = IF old THEN OldSpdf ELSE EmptyFS
       /\ tar = IF old THEN OldTar ELSE NoTars
  /\ ncmd = 0
  /\ main = Started

ClientUpload(s) ==
  \/ Client_ufile(s) \/ Peer_ufile(s) \/ Client_send_file_body(s)
  \/ Client_send_file_ack(s)

ClientDownload(s) ==
  \/ Client_dfile(s) \/ Client_dfile_cmd(s) \/ Client_download_file_size(s)
  \/ Client_download_file(s)

ClientRemove(s) ==
  \/ Client_rmfile(s) \/ Client_remove_file_cmd(s) \/ Client_remove_file_ack(s)

SmainUpload(s) ==
  \/ Smain_receive_file(s)
  \/ Smain_send_file_to_server(s) \/ Smain_forward_body(s)
  \/ Smain_forward_ack(s) \/ Smain_forward_reply(s)

SmainDownload(s) ==
  \/ Smain_fetch_cmd(s) \/ Smain_fetch_size(s) \/ Smain_fetch_body(s)
  \/ Smain_fetch_reply(s)
  \/ Smain_send_file_body(s) \/ Smain_send_file_ack(s)
  \/ Smain_send_file_notfound(s)

SmainRemove(s) == Smain_remove_cmd(s) \/ Smain_remove_reply(s)

SpdfUpload(c) == Spdf_receive_file_size(c) \/ Spdf_receive_file(c)

SpdfDownload(c) ==
  \/ Spdf_send_file_body(c) \/ Spdf_send_file_ack(c)
  \/ Spdf_send_file_notfound(c)

\* one client session at a time: every command, one after the other
Solo == {1}
Next ==
  \/ \E s \in Solo :
       \/ ClientUpload(s) \/ ClientDownload(s) \/ ClientRemove(s)
       \/ Client_response(s)
       \/ Smain_prcclient(s)
       \/ SmainUpload(s) \/ SmainDownload(s) \/ SmainRemove(s)
  \/ \E c \in Conns : Spdf_prcclient(c) \/ SpdfUpload(c) \/ SpdfDownload(c)

Spec == Init /\ [][Next]_vars

\* two client sessions at once, downloading and deleting
NextConc ==
  \/ \E s \in Sessions :
       \/ ClientDownload(s) \/ ClientRemove(s) \/ Client_response(s)
       \/ Smain_prcclient(s) \/ SmainDownload(s) \/ SmainRemove(s)
  \/ \E c \in Conns : Spdf_prcclient(c) \/ SpdfDownload(c)

SpecConc == Init /\ [][NextConc]_vars

\* one session uploading, while a backend can exit and a destination can
\* name a regular file; nothing is typed once the session's child is gone
NextFail ==
  \/ \E s \in Solo :
       \/ co[s].pc # "killed" /\ ClientUpload(s)
       \/ co[s].pc # "killed" /\ Client_ufile_under_file(s)
       \/ Client_response(s)
       \/ Smain_prcclient(s)
       \/ SmainUpload(s)
  \/ \E c \in Conns : Spdf_prcclient(c) \/ SpdfUpload(c) \/ Spdf_exit(c)

SpecFail == Init /\ [][NextFail]_vars

\* one session listing and asking for archives
NextList ==
  \/ \E s \in Solo :
       \/ Client_dtar(s) \/ Client_display(s)
       \/ Client_dfile_cmd(s) \/ Client_download_file_size(s)
       \/ Client_download_file(s) \/ Client_response(s)
       \/ Smain_prcclient(s)
       \/ Smain_dtar_cmd(s) \/ Smain_dtar_reply(s)
       \/ Smain_display_cmd(s) \/ Smain_display_size(s)
       \/ Smain_display_body(s) \/ Smain_display_reply(s)
       \/ Smain_send_file_body(s) \/ Smain_send_file_ack(s)
       \/ Smain_send_file_notfound(s)
  \/ \E c \in Conns : Spdf_prcclient(c) \/ SpdfDownload(c)

SpecList == Init /\ [][NextList]_vars

\* two sessions at once, each uploading its own a.txt to the root
NextRace ==
  \/ \E s \in Sessions :
       \/ Client_ufile_same(s) \/ Client_send_file_body(s)
       \/ Client_send_file_ack(s) \/ Client_response(s)
       \/ Smain_prcclient(s) \/ SmainUpload(s) \/ Smain_forward_notfound(s)
  \/ \E c \in Conns : Spdf_prcclient(c) \/ SpdfUpload(c)

SpecRace == Init /\ [][NextRace]_vars

\* one session uploading, downloading and listing
NextXfer ==
  \/ \E s \in Solo :
       \/ ClientUpload(s) \/ ClientDownload(s) \/ Client_display(s)
       \/ Client_response(s)
       \/ Smain_prcclient(s)
       \/ SmainUpload(s) \/ SmainDownload(s)
       \/ Smain_display_cmd(s) \/ Smain_display_size(s)
       \/ Smain_display_body(s) \/ Smain_display_reply(s)
  \/ \E c \in Conns : Spdf_prcclient(c) \/ SpdfUpload(c) \/ SpdfDownload(c)

SpecXfer == Init /\ [][NextXfer]_vars

\* one session of a peer that also sends lines client24s never sends,
\* deleting and listing
NextPeer ==
  \/ \E s \in Solo :
       \/ Peer_rmfile_extra(s) \/ Peer_unknown(s)
       \/ ClientRemove(s) \/ Client_display(s)
       \/ Client_dfile_cmd(s) \/ Client_download_file_size(s)
       \/ Client_download_file(s) \/ Client_response(s)
       \/ Smain_prcclient(s) \/ SmainRemove(s)
       \/ Smain_display_cmd(s) \/ Smain_display_size(s)
       \/ Smain_display_body(s) \/ Smain_display_reply(s)
       \/ Smain_send_file_body(s) \/ Smain_send_file_ack(s)
       \/ Smain_send_file_notfound(s)
  \/ \E c \in Conns : Spdf_prcclient(c) \/ SpdfDownload(c)

SpecPeer == Init /\ [][NextPeer]_vars

\* one session, every command of client24s, the destination of an upload
\* possibly a regular file
NextAll ==
  \/ \E s \in Solo :
       \/ Client_ufile(s) \/ Client_ufile_under_file(s)
       \/ Client_send_file_body(s) \/ Client_send_file_ack(s)
       \/ ClientDownload(s) \/ ClientRemove(s)
       \/ Client_dtar(s) \/ Client_display(s) \/ Client_response(s)
       \/ Smain_prcclient(s)
       \/ SmainUpload(s) \/ SmainDownload(s) \/ SmainRemove(s)
       \/ Smain_dtar_cmd(s) \/ Smain_dtar_reply(s)
       \/ Smain_display_cmd(s) \/ Smain_display_size(s)
       \/ Smain_display_body(s) \/ Smain_display_reply(s)
  \/ \E c \in Conns : Spdf_prcclient(c) \/ SpdfUpload(c) \/ SpdfDownload(c)

SpecAll == Init /\ [][NextAll]_vars

\* one session deleting, whose client process can end
NextGone ==
  \/ \E s \in Solo :
       \/ ClientRemove(s) \/ Client_response(s) \/ Client_gone(s)
       \/ Smain_prcclient(s) \/ Smain_prcclient_lost(s) \/ SmainRemove(s)
  \/ \E c \in Conns : Spdf_prcclient(c)

SpecGone == Init /\ [][NextGone]_vars

(***************************************************************************)
(* Start-up.  Smain's main() connects to the two backends, sets up its     *)
(* listening socket and then accepts and forks for ever; the backend's     *)
(* main() accepts and forks in the same way; a client connects before its  *)
(* first prompt.  A connection the kernel has completed and accept() has   *)
(* not yet returned has its child at pc "backlog".                          *)
(***************************************************************************)
UnbornM == [IdleM EXCEPT !.pc = "unborn"]
UnbornB == [IdleB EXCEPT !.pc = "unborn"]
UnconnectedC == [IdleC EXCEPT !.pc = "unconnected"]

\* main() at its first statement
AtStart ==
  [pc |-> "connect_stext", sock |-> [c \in Conns |-> 0],
   nconn |-> [c \in Conns |-> 0],
   child |-> [s \in Sessions |-> [c \in Conns |-> 0]],
   busy |-> [s \in Sessions |-> {}]]

\* the statement after each of main()'s steps
AfterConnect(pc) == IF pc = "connect_stext" THEN "connect_spdf" ELSE "listen"
SocketOf(pc) ==
  IF pc = "connect_stext" THEN "stext_server_socket" ELSE "spdf_server_socket"

\* a faulty accept loop: the parent serves the client itself
AfterFork_inline(child_pid) == "prcclient"

\* where a process goes on after fork(): the child into prcclient, the
\* parent back to accept()
AfterFork(child_pid) == IF child_pid = 0 THEN "prcclient" ELSE "accept"

\* connect_to_server(&stext_server_socket, ..) and then
\* connect_to_server(&spdf_server_socket, ..); exit when connect() fails
Main_connect_to_server ==
  /\ main.pc \in {"connect_stext", "connect_spdf"}
  /\ LET c == SocketOf(main.pc) IN
     \E ok \in BOOLEAN :
       /\ main' = IF ok
                  THEN [main EXCEPT !.pc = AfterConnect(@),
                                    !.sock[c] = main.nconn[c] + 1,
                                    !.nconn[c] = @ + 1]
                  ELSE [main EXCEPT !.pc = "exited"]
       /\ be' = IF ok THEN [be EXCEPT ![c].pc = "backlog"] ELSE be
  /\ UNCHANGED <<cl, co, c2m, m2c, m2b, b2m, smain, spdf, tar, ncmd>>

\* socket(), bind(), listen(); exit when one of them fails
Main_listen ==
  /\ main.pc = "listen"
  /\ \E ok \in BOOLEAN :
       main' = [main EXCEPT !.pc = IF ok THEN "accept" ELSE "exited"]
  /\ UNCHANGED <<cl, co, be, c2m, m2c, m2b, b2m, smain, spdf, tar, ncmd>>

\* a child that is inside process_command, blocked in a recv() on its
\* backend socket
InOperation(t) == co[t].pc \notin {"unborn", "backlog", "cmd", "killed", "lost"}

\* accept() returns session s's connection; fork(); the child runs
\* prcclient with the parent's globals, the parent closes client_socket
\* and loops.  busy[s] records the children that were inside an operation
\* at that moment.
Main_accept(s) ==
  /\ main.pc = "accept"
  /\ co[s].pc = "backlog"
  /\ co' = [co EXCEPT ![s] = [IdleM EXCEPT !.pc =
                                IF AfterFork(0) = "prcclient" THEN "cmd" ELSE "unborn"]]
  /\ main' = [main EXCEPT !.pc = AfterFork(1),
                          !.child[s] = Inherited(main.sock),
                          !.busy[s] = {t \in Sessions : InOperation(t)}]
  /\ UNCHANGED <<cl, be, c2m, m2c, m2b, b2m, smain, spdf, tar, ncmd>>

\* the backend's accept() returns the connection behind socket c; fork();
\* the child runs prcclient
Backend_accept(c) ==
  /\ be[c].pc = "backlog"
  /\ be' = [be EXCEPT ![c] = IdleB]
  /\ UNCHANGED <<cl, co, c2m, m2c, m2b, b2m, smain, spdf, tar, ncmd, main>>

\* the client's connect(): refused unless Smain listens
Client_connect(s) ==
  /\ cl[s].pc = "unconnected"
  /\ main.pc # "exited"
  /\ cl' = [cl EXCEPT ![s] = IF main.pc = "accept" THEN IdleC
                             ELSE [@ EXCEPT !.pc = "exited"]]
  /\ co' = IF main.pc = "accept" THEN [co EXCEPT ![s].pc = "backlog"] ELSE co
  /\ UNCHANGED <<be, c2m, m2c, m2b, b2m, smain, spdf, tar, ncmd, main>>

InitStart ==
  /\ cl = [s \in Sessions |-> UnconnectedC]
  /\ co = [s \in Sessions |-> UnbornM]
  /\ be = [c \in Conns |-> UnbornB]
  /\ c2m = [s \in Sessions |-> <<>>]
  /\ m2c = [s \in Sessions |-> <<>>]
  /\ m2b = [c \in Conns |-> <<>>]
  /\ b2m = [c \in Conns |-> <<>>]
  /\ \E old \in BOOLEAN :
       /\ smain = IF old THEN OldSmain ELSE EmptyFS
       /\ spdf = IF old THEN OldSpdf ELSE EmptyFS
       /\ tar = IF old THEN OldTar ELSE NoTars
  /\ ncmd = 0
  /\ main = AtStart

\* the three programs from their start, two clients deleting files
NextStart ==
  \/ Main_connect_to_server \/ Main_listen
  \/ \E s \in Sessions :
       \/ Client_connect(s) \/ Main_accept(s)
       \/ ClientRemove(s) \/ Client_response(s)
       \/ Smain_prcclient(s) \/ SmainRemove(s)
  \/ \E c \in Conns : Backend_accept(c) \/ Spdf_prcclient(c)

SpecStart == InitStart /\ [][NextStart]_vars

\* start-up and two clients while both backends stall: they have taken
\* Smain's connections into their backlog and answer nothing.  The kernel's
\* scheduling is the only promise: a parent whose accept() can return and a
\* child whose recv() on its client socket can return do run.
NextLive ==
  \/ Main_connect_to_server \/ Main_listen
  \/ \E s \in Sessions :
       \/ Client_connect(s) \/ Main_accept(s)
       \/ ClientRemove(s) \/ Client_response(s)
       \/ Smain_prcclient(s)

SpecLive ==
  /\ InitStart /\ [][NextLive]_vars
  /\ \A s \in Sessions : WF_vars(Main_accept(s)) /\ WF_vars(Smain_prcclient(s))

\* one session deleting files while every process keeps running: a client,
\* a Smain child or a backend child whose recv() can return does run
NextReturn ==
  \/ \E s \in Solo :
       \/ ClientRemove(s) \/ Client_response(s)
       \/ Smain_prcclient(s) \/ SmainRemove(s)
  \/ \E c \in Conns : Spdf_prcclient(c)

SpecReturn ==
  /\ Init /\ [][NextReturn]_vars
  /\ \A s \in Solo :
       /\ WF_vars(Client_remove_file_cmd(s) \/ Client_remove_file_ack(s)
                  \/ Client_response(s))
       /\ WF_vars(Smain_prcclient(s) \/ SmainRemove(s))
  /\ \A c \in Conns : WF_vars(Spdf_prcclient(c))

\* one session uploading, the client process ended in the middle
NextCut ==
  \/ \E s \in Solo :
       \/ Client_ufile(s) \/ Client_send_file_body(s) \/ Client_send_file_cut(s)
       \/ Client_send_file_ack(s) \/ Client_response(s)
       \/ Smain_prcclient(s) \/ Smain_receive_file_eof(s)
       \/ SmainUpload(s)
  \/ \E c \in Conns : Spdf_prcclient(c) \/ SpdfUpload(c)

SpecCut == Init /\ [][NextCut]_vars

\* two sessions asking for archives at once
NextTar ==
  \/ \E s \in Sessions :
       \/ Client_dtar(s) \/ Client_dfile_cmd(s)
       \/ Client_download_file_size(s) \/ Client_download_file(s)
       \/ Client_response(s)
       \/ Smain_prcclient_build(s) \/ Smain_create_tar_exit(s)
       \/ Smain_dtar_cmd(s) \/ Smain_dtar_reply(s)
       \/ Smain_send_file_body(s) \/ Smain_send_file_ack(s)
       \/ Smain_send_file_notfound(s)
  \/ \E c \in Conns : Spdf_prcclient(c)

SpecTar == Init /\ [][NextTar]_vars

(***************************************************************************)
(* Properties.                                                             *)
(***************************************************************************)
\* the recv()s of a Smain child on its backend socket
BackendPcs ==
  {"fwd_cmd", "fwd_size", "fwd_ack", "fwd_reply", "fwd_nf",
   "dl_cmd", "dl_size", "dl_body", "dl_reply", "rm_cmd", "rm_reply"}

\* session s waits for ever: the client is blocked in a recv with nothing to
\* read, it has nothing unread at Smain, and its Smain child is blocked on
\* the client socket or on a backend socket that is idle
Hung(s) ==
  /\ cl[s].pc # "prompt" /\ m2c[s] = <<>> /\ c2m[s] = <<>>
  /\ IF co[s].pc \in BackendPcs THEN Quiet(co[s].conn) ELSE TRUE

\* the extension each backend socket is meant for
ExtOf(c) == IF c = "stext_server_socket" THEN ".txt" ELSE ".pdf"

FileOps == {"ufile", "dfile", "rmfile"}

\* C1: with two sessions at once, a session whose first command downloads a
\* backend-routed file and is told "File downloaded" has received exactly
\* the bytes ./spdf holds for the path it asked for (no upload runs under
\* SpecConc: the content of a path is what it was at start).
C1_OwnBytes ==
  \A s \in Sessions :
    (/\ cl[s].pc = "prompt" /\ cl[s].op = "dfile" /\ cl[s].prev = NoCmd
     /\ IsBackendExt(strrchr_dot(cl[s].name))
     /\ cl[s].resp = "File downloaded")
    => /\ HasFile(OldSpdf, <<cl[s].dir, cl[s].name>>)
       /\ cl[s].got = FileOf(OldSpdf, <<cl[s].dir, cl[s].name>>)

\* C2: reads and writes alternate strictly on every connection: no stream
\* ever holds two control messages (a command line, a control string, a
\* length) written one right after the other and not yet read.
IsControl(t) == t.k # "byte"
Alternates(ch) ==
  \A i \in 1..(Len(ch) - 1) : ~(IsControl(ch[i]) /\ IsControl(ch[i + 1]))
C2_Alternation ==
  /\ \A s \in Sessions : Alternates(c2m[s]) /\ Alternates(m2c[s])
  /\ \A c \in Conns : Alternates(m2b[c]) /\ Alternates(b2m[c])

\* C3: Smain's send_file of a staged file B against Spdf's receive_file
\* told the length Len(B), on a socket that was idle when the exchange
\* began: once the sender has read the terminal acknowledgement, the
\* receiver has left receive_file and its file holds exactly B.
C3_RoundTrip ==
  \A s \in Sessions :
    (co[s].pc = "fwd_reply" /\ co[s].sync /\ co[s].size = Len(co[s].rbuf))
    => LET b == be[co[s].conn]
           p == <<co[s].dir, co[s].name>>
       IN /\ b.pc = "cmd" /\ b.op = "ufile" /\ <<b.dir, b.name>> = p
          /\ HasFile(spdf, p) /\ FileOf(spdf, p) = co[s].rbuf

\* a two-byte file of distinct bytes went through the round trip
C3_Witness ==
  \E s \in Sessions :
    /\ co[s].pc = "fwd_reply" /\ co[s].sync /\ co[s].rbuf = <<2, 1>>
    /\ co[s].size = 2 /\ be[co[s].conn].pc = "cmd"

\* C4 (as amended): after "ufile n.c d" was answered "File received by
\* server", a completed "dfile d/n.c" is answered "File downloaded", the
\* client's copy is byte for byte the uploaded file, and ./smain still
\* holds d/n.c with those bytes.
C4_UploadThenDownload ==
  \A s \in Sessions :
    (/\ cl[s].pc = "prompt" /\ cl[s].op = "dfile" /\ cl[s].name = "n.c"
     /\ cl[s].prev = [op |-> "ufile", name |-> "n.c", dir |-> cl[s].dir,
                      resp |-> "File received by server"])
    => /\ cl[s].resp = "File downloaded"
       /\ cl[s].got = cl[s].file
       /\ HasFile(smain, <<cl[s].dir, "n.c">>)
       /\ FileOf(smain, <<cl[s].dir, "n.c">>) = cl[s].file

\* a two-byte n.c uploaded under notes came back from "dfile notes/n.c"
C4_Witness ==
  \E s \in Sessions :
    /\ cl[s].pc = "prompt" /\ cl[s].op = "dfile" /\ cl[s].name = "n.c"
    /\ cl[s].dir = "notes" /\ cl[s].prev.op = "ufile"
    /\ cl[s].prev.resp = "File received by server" /\ cl[s].prev.dir = "notes"
    /\ cl[s].file = <<1, 2>> /\ cl[s].got = <<1, 2>>

\* C4 as the claim words it: after n.c was uploaded to any directory, a
\* completed download of the name n.c returns the uploaded bytes, and the
\* store holds exactly one entry named n.c.
C4_ByName ==
  \A s \in Sessions :
    (/\ cl[s].pc = "prompt" /\ cl[s].op = "dfile" /\ cl[s].name = "n.c"
     /\ cl[s].dir = RootDir
     /\ cl[s].prev.op = "ufile" /\ cl[s].prev.name = "n.c"
     /\ cl[s].prev.resp = "File received by server")
    => /\ cl[s].resp = "File downloaded"
       /\ cl[s].got = cl[s].file
       /\ Cardinality({p \in DOMAIN smain.files : p[2] = "n.c"}) = 1

\* C5: a run whose first command uploads a non-empty r.pdf to notes never
\* waits for ever, and once the client is back at its prompt it has been
\* told "File received by server", ./spdf holds notes/r.pdf with the
\* uploaded bytes and ./smain holds no staged r.pdf.
C5_UploadPdfEnds ==
  \A s \in Sessions :
    (/\ cl[s].op = "ufile" /\ cl[s].name = "r.pdf" /\ cl[s].dir = "notes"
     /\ cl[s].prev = NoCmd /\ cl[s].file # <<>>)
    => /\ ~Hung(s)
       /\ cl[s].pc = "prompt"
          => /\ cl[s].resp = "File received by server"
             /\ HasFile(spdf, <<"notes", "r.pdf">>)
             /\ FileOf(spdf, <<"notes", "r.pdf">>) = cl[s].file
             /\ ~HasFile(smain, <<RootDir, "r.pdf">>)

\* C6: the target of a command is a function of the extension alone, the
\* same for ufile, dfile and rmfile: a child in a backend exchange serves a
\* .txt name on stext_server_socket or a .pdf name on spdf_server_socket;
\* a .c name never opens a backend exchange; every command line Smain writes
\* on a socket has the socket's extension.
C6_Routing ==
  /\ \A s \in Sessions :
       LET ext == strrchr_dot(co[s].name) IN
       /\ co[s].pc \in BackendPcs
          => /\ co[s].op \in FileOps /\ IsBackendExt(ext)
             /\ ext = ExtOf(co[s].conn)
       /\ ext = ".c" => co[s].pc \notin BackendPcs /\ co[s].conn = NoConn
  /\ \A c \in Conns :
       \A i \in 1..Len(m2b[c]) :
         m2b[c][i].k = "cmd" => strrchr_dot(m2b[c][i].name) = ExtOf(c)

\* after a .pdf was deleted through spdf_server_socket, the same session
\* forwards a .txt upload on stext_server_socket
C6_Witness ==
  \E s \in Sessions :
    /\ co[s].pc = "fwd_reply" /\ co[s].name = "a.txt"
    /\ co[s].conn = "stext_server_socket"
    /\ cl[s].prev.op = "rmfile" /\ cl[s].prev.name = "r.pdf"
    /\ cl[s].prev.resp = "File removed"

\* C7: a ufile, dfile or rmfile whose name has no extension is answered
\* with the error reply and nothing else: the child opens no backend
\* exchange, the session is left at a command boundary (whatever the client
\* writes next is a command line), and the client prints that error reply.
C7_NoExtension ==
  \A s \in Sessions :
    (/\ co[s].pc = "cmd" /\ co[s].op \in FileOps
     /\ strrchr_dot(co[s].name) = NoExt)
    => /\ co[s].rep \in {"Failed to receive file", "Failed to download file",
                         "Failed to remove file"}
       /\ co[s].conn = NoConn
       /\ \A i \in 1..Len(c2m[s]) : c2m[s][i].k = "cmd"
       /\ (/\ cl[s].pc = "prompt" /\ cl[s].op = co[s].op
           /\ cl[s].name = co[s].name)
          => cl[s].resp = co[s].rep

\* C8: an upload whose extension is not .c, .txt or .pdf is rejected: it is
\* not answered "File received by server" and ./smain holds no file with
\* such an extension.
C8_UnknownExtRejected ==
  /\ \A p \in DOMAIN smain.files :
       p[2] \in ClientNames => SupportedExt(strrchr_dot(p[2]))
  /\ \A s \in Sessions :
       (/\ co[s].pc = "cmd" /\ co[s].op = "ufile"
        /\ strrchr_dot(co[s].name) # NoExt
        /\ ~SupportedExt(strrchr_dot(co[s].name)))
       => co[s].rep # "File received by server"

\* C9: after a delete of a path was answered "File removed", a second
\* delete of the same path never leaves the client waiting for ever, and
\* when the client is back at its prompt it has printed the failure reply.
C9_SecondDelete ==
  \A s \in Sessions :
    (/\ cl[s].op = "rmfile"
     /\ cl[s].prev = [op |-> "rmfile", name |-> cl[s].name, dir |-> cl[s].dir,
                      resp |-> "File removed"])
    => /\ ~Hung(s)
       /\ cl[s].pc = "prompt" => cl[s].resp = "Failed to remove file"

\* C10: for a backend-routed delete, Smain reports "File removed" only when
\* the reply it read from the backend is the reply to that same command (a
\* reply carries the tag of the session whose command it answers).
C10_OwnReply ==
  \A s \in Sessions :
    (/\ co[s].pc = "cmd" /\ co[s].op = "rmfile"
     /\ IsBackendExt(strrchr_dot(co[s].name))
     /\ co[s].rep \in {"File removed", "Failed to remove file"})
    => co[s].rtag = s

\* C11: a session whose first command downloads a backend-routed path that
\* exists on the backend (notes/r.pdf as well as a.txt) and is back at its
\* prompt has been told "File downloaded", holds exactly the backend's
\* bytes, and ./smain holds no copy of the file.
C11_FetchedDownload ==
  \A s \in Sessions :
    LET p == <<cl[s].dir, cl[s].name>> IN
    (/\ cl[s].pc = "prompt" /\ cl[s].op = "dfile" /\ cl[s].prev = NoCmd
     /\ IsBackendExt(strrchr_dot(cl[s].name)) /\ HasFile(spdf, p))
    => /\ cl[s].resp = "File downloaded"
       /\ cl[s].got = FileOf(spdf, p)
       /\ ~HasFile(smain, p)

\* C12: a backend-routed upload to an ordinary directory that Smain
\* answers "File received by server" was forwarded: the backend holds the
\* file under the destination and ./smain holds no staged copy.
C12_SuccessMeansStored ==
  \A s \in Sessions :
    (/\ co[s].pc = "cmd" /\ co[s].op = "ufile" /\ co[s].dir \in ClientDirs
     /\ IsBackendExt(strrchr_dot(co[s].name))
     /\ co[s].rep = "File received by server")
    => /\ HasFile(spdf, <<co[s].dir, co[s].name>>)
       /\ ~HasFile(smain, <<RootDir, co[s].name>>)

\* C13: an upload whose target file cannot be opened is never answered with
\* the success reply, by Smain (a .c name) or by a backend.
C13_StoreFailureReported ==
  /\ \A s \in Sessions :
       (/\ co[s].pc = "cmd" /\ co[s].op = "ufile"
        /\ strrchr_dot(co[s].name) = ".c"
        /\ ~CanCreate(smain, <<co[s].dir, co[s].name>>))
       => co[s].rep # "File received by server"
  /\ \A c \in Conns :
       (/\ be[c].pc = "cmd" /\ be[c].op = "ufile"
        /\ ~CanCreate(spdf, <<be[c].dir, be[c].name>>))
       => be[c].rep # "File received "

\* C14: for "dtar pdf", Smain opens ./tar/pdf.tar to stream it only once the
\* pdf backend has handled the dtar signal and is back in prcclient; and
\* when the backend built its archive and the client was told "Tar file
\* downloaded", the client's bytes are the archive of ./spdf.
C14_WaitsForBuild ==
  \A s \in Sessions :
    LET b == be["spdf_server_socket"] IN
    /\ (co[s].op = "dtar" /\ co[s].name = "pdf"
        /\ co[s].pc \in {"sf_size", "sf_nf"})
       => b.op = "dtar" /\ b.pc = "cmd"
    /\ (/\ cl[s].pc = "prompt" /\ cl[s].op = "dtar" /\ cl[s].name = "pdf"
        /\ cl[s].resp = "Tar file downloaded"
        /\ b.rep = "Tar file downloaded")
       => cl[s].got = TarOf(spdf)

\* C15: when the pdf backend answered the dtar signal of a session's first
\* command "dtar pdf" with "Failed to download tar file", the client is
\* told so and was announced no archive (the declared length -1).
C15_BuildFailureReported ==
  \A s \in Sessions :
    (/\ cl[s].pc = "prompt" /\ cl[s].op = "dtar" /\ cl[s].name = "pdf"
     /\ cl[s].prev = NoCmd
     /\ be["spdf_server_socket"].rep = "Failed to download tar file")
    => cl[s].resp = "Failed to download tar file" /\ cl[s].size = -1

\* the answer to a list of d: ./smain's listing, then that of the store
\* behind the pdf socket, then that of the store behind the text socket
\* (both are ./spdf)
Combined(d) ==
  traverse_directory(smain, d) \o traverse_directory(spdf, d)
    \o traverse_directory(spdf, d)

\* C16: in a session that has only listed, every completed "display d" was
\* announced the length of the three listings of d put together, local
\* first, and a non-empty answer is those lines in that order.
C16_CombinedListing ==
  \A s \in Sessions :
    (/\ cl[s].pc = "prompt" /\ cl[s].op = "display"
     /\ cl[s].prev.op \in {"", "display"})
    => /\ cl[s].size = Len(Combined(cl[s].dir))
       /\ cl[s].size > 0 => cl[s].got = Combined(cl[s].dir)

\* C17: a session's first command "display d" when ./smain and ./spdf hold
\* no file is announced the length 0 and no body follows, and the outcome
\* shown to the user is not a failure.
C17_EmptyListingNoError ==
  \A s \in Sessions :
    (/\ cl[s].pc = "prompt" /\ cl[s].op = "display" /\ cl[s].prev = NoCmd
     /\ smain = EmptyFS /\ spdf = EmptyFS)
    => /\ cl[s].size = 0 /\ cl[s].got = <<>>
       /\ cl[s].resp # "Failed to get files"

\* C18: no receiver that read -1 in the length handshake is in its body
\* loop: the client (download_file), Smain fetching from a backend, the
\* backend receiving a forwarded upload.
C18_NoBodyReadAfterNotFound ==
  /\ \A s \in Sessions :
       /\ (cl[s].pc = "d_body" /\ cl[s].op # "display") => cl[s].size # -1
       /\ co[s].pc = "dl_body" => co[s].size # -1
  /\ \A c \in Conns : be[c].pc = "ubody" => be[c].hs # -1

\* what a step read from a stream: ch before the step, ch2 after it
ReadOf(ch, ch2) == SubSeq(ch, 1, Len(ch) - Len(ch2))

\* the stream a Smain child's receive loop reads
LoopStream(s, m, b) == IF co[s].pc = "ubody" THEN m[s] ELSE b[co[s].conn]

\* C19: a step in which a receiver leaves its body loop (and sends the
\* terminal "ack") has brought its byte counter to the declared length or
\* beyond: Smain's receive_file and display_files_from_server, the client's
\* download_file and display_files.
C19_AckAfterLength ==
  [][\A s \in Sessions :
       /\ (co[s].pc \in {"ubody", "dl_body", "ls_body"} /\ co'[s].pc # co[s].pc)
          => co[s].total
               + BufBytes(ReadOf(LoopStream(s, c2m, b2m), LoopStream(s, c2m', b2m')))
             >= co[s].size
       /\ (cl[s].pc = "d_body" /\ cl'[s].pc # "d_body")
          => cl[s].total + BufBytes(ReadOf(m2c[s], m2c'[s])) >= cl[s].size]_vars

\* the client has left download_file's loop for a two-byte file, Smain its
\* receive_file loop on the backend socket for the same file
C19_Witness ==
  \E s \in Sessions :
    /\ cl[s].pc = "resp" /\ cl[s].op = "dfile" /\ cl[s].size = 2
    /\ cl[s].total = 2 /\ cl[s].got = <<2, 1>>
    /\ co[s].size = 2 /\ co[s].total = 2

\* C20: while Smain forwards an upload, the size it put in the forwarded
\* ufile command (the client's) equals the length of the staged file it
\* opened, which is the length it announces and the bytes it writes.
C20_ForwardedSizesAgree ==
  \A s \in Sessions :
    co[s].pc \in {"fwd_size", "fwd_ack", "fwd_reply"}
    => co[s].size = Len(co[s].rbuf)

\* the five verbs, and the number of arguments the contract gives each
Verbs == {"ufile", "dfile", "rmfile", "dtar", "display"}
Arity(op) == IF op = "ufile" THEN 3 ELSE 1

\* C21: a command line whose argument count is not the arity of its verb
\* is rejected by Smain before dispatch: the child opens no backend
\* exchange and is back in prcclient without a success reply (no file of
\* ./smain was removed for it).
C21_ArityChecked ==
  \A s \in Sessions :
    (co[s].op \in Verbs /\ co[s].count # Arity(co[s].op) + 1)
    => /\ co[s].pc = "cmd" /\ co[s].conn = NoConn
       /\ co[s].rep # "File removed"

\* C22: a step in which a child in prcclient reads a buffer whose first
\* token is none of the five verbs writes the acknowledgement and exactly
\* one reply, "Invalid command", to the peer, leaves the stores, ./tar and
\* the other connections as they were, and ends in prcclient: Smain's
\* children and the backend's.
C22_UnknownVerb ==
  [][/\ \A s \in Sessions :
          (/\ co[s].pc = "cmd" /\ Len(c2m'[s]) < Len(c2m[s])
           /\ tokenize_command(ReadOf(c2m[s], c2m'[s])).op \notin Verbs)
          => /\ co'[s].pc = "cmd"
             /\ m2c'[s] = m2c[s] \o <<TxtTok("ack", s),
                                       TxtTok("Invalid command", s)>>
             /\ smain' = smain /\ tar' = tar /\ m2b' = m2b
     /\ \A c \in Conns :
          (/\ be[c].pc = "cmd" /\ Len(m2b'[c]) < Len(m2b[c])
           /\ tokenize_command(ReadOf(m2b[c], m2b'[c])).op \notin Verbs)
          => /\ be'[c].pc = "cmd"
             /\ Len(b2m'[c]) = Len(b2m[c]) + 2
             /\ b2m'[c][Len(b2m'[c])].s = "Invalid command"
             /\ b2m'[c][Len(b2m'[c]) - 1].s = "ack"
             /\ spdf' = spdf /\ tar' = tar]_vars

\* the peer's unknown line was answered "Invalid command" by Smain, after
\* a backend had answered "Invalid command" to what it read as a command
C22_Witness ==
  \E s \in Sessions :
    /\ cl[s].pc = "prompt" /\ cl[s].op = "bogus"
    /\ cl[s].resp = "Invalid command"
    /\ co[s].pc = "cmd" /\ co[s].rep = "Invalid command"
    /\ \E c \in Conns : be[c].rep = "Invalid command"

\* the result replies of process_command
FailureReplies ==
  {"Failed to receive file", "Failed to download file", "Failed to remove file",
   "Failed to download tar file", "Failed to get files", "Invalid command"}
SuccessReplies ==
  {"File received by server", "File received ", "File downloaded",
   "File removed", "Tar file downloaded", "File paths saved as file"}
ResultReplies == FailureReplies \cup SuccessReplies
IsResult(ch) ==
  ch # <<>> /\ ch[Len(ch)].k = "txt" /\ ch[Len(ch)].s \in ResultReplies

C24_FailedReadEnds ==
  \A s \in Sessions : co[s].rcv < 0 => ~co[s].blind

\* C25: a child of Smain whose recv of a command found the peer gone
\* (returned 0) ends its session and dispatches nothing: it is not back in
\* prcclient after process_command was called on the empty buffer.
C25_DisconnectEnds ==
  \A s \in Sessions :
    co[s].rcv = 0 => ~co[s].blind /\ co[s].pc # "cmd"

\* C26: send_with_acknowledgement reports success only when a non-empty
\* reply was read: a step in which Smain's child goes from the exchange of
\* the forwarded command on to send_file (the exchange returned a positive
\* number) has read at least one unit from the backend socket.
C26_SuccessNeedsReply ==
  [][\A s \in Sessions :
       (co[s].pc = "fwd_cmd" /\ co'[s].pc \in {"fwd_size", "fwd_nf"})
       => Len(b2m'[co[s].conn]) < Len(b2m[co[s].conn])]_vars

\* the regular files of store fs in the tree under d
FilesUnder(fs, d) == {p \in DOMAIN fs.files : d = RootDir \/ p[1] = d}

\* the listing of d on store fs has exactly one line for every regular file
\* under d, the file's name and its path below d, and no other line
ListsTree(fs, d) ==
  LET lines == traverse_directory(fs, d) IN
  /\ Len(lines) = Cardinality(FilesUnder(fs, d))
  /\ \A p \in FilesUnder(fs, d) :
       \E i \in 1..Len(lines) : lines[i] = file_entry(d, p)

\* C29: on every store the uploads, downloads and lists of a session can
\* leave, the listing of any directory asked for is one line per regular
\* file of the tree under it, with the path below the directory the walk
\* started from; and what a backend sends for a list is that listing.
C29_ListsTree ==
  /\ \A d \in ListDirs : ListsTree(smain, d) /\ ListsTree(spdf, d)
  /\ \A c \in Conns :
       (be[c].op = "display" /\ be[c].pc = "sf_size")
       => be[c].rbuf = traverse_directory(spdf, be[c].dir)

\* a backend is sending the listing of the root of a store that holds an
\* uploaded file in the root and a file under notes: the walk went down
C29_Witness ==
  \E c \in Conns :
    /\ be[c].op = "display" /\ be[c].pc = "sf_size" /\ be[c].dir = RootDir
    /\ HasFile(spdf, <<"notes", "r.pdf">>) /\ HasFile(spdf, <<RootDir, "r.pdf">>)
    /\ Len(be[c].rbuf) >= 2
    /\ \E i \in 1..Len(be[c].rbuf) :
         be[c].rbuf[i] = file_entry(RootDir, <<"notes", "r.pdf">>)

\* C30: once a session's first command, a download of a backend-routed
\* path the backend does not hold, is over (the client back at its prompt,
\* Smain's child and the backend's child back in prcclient, nothing on its
\* way to the backend), the backend connection it used carries no unread
\* unit.
C30_NothingUnread ==
  \A s \in Sessions :
    LET c == SocketFor(strrchr_dot(cl[s].name)) IN
    (/\ cl[s].pc = "prompt" /\ cl[s].op = "dfile" /\ cl[s].prev = NoCmd
     /\ IsBackendExt(strrchr_dot(cl[s].name))
     /\ ~HasFile(spdf, <<cl[s].dir, cl[s].name>>)
     /\ co[s].pc = "cmd" /\ be[c].pc = "cmd" /\ m2b[c] = <<>>)
    => b2m[c] = <<>>

\* a Smain child that fork() has created
Born(s) == co[s].pc \notin {"unborn", "backlog"}

\* C27: from the moment main() can accept, and whenever a session's child
\* exists, each backend socket has been connected exactly once and holds
\* that first connection, and every child's copy of the two sockets is the
\* parent's: no session has a connection of its own, and none was opened,
\* closed or replaced after start-up.
C27_ConnectOnce ==
  /\ (main.pc = "accept" \/ \E s \in Sessions : Born(s))
       => \A c \in Conns : main.nconn[c] = 1 /\ main.sock[c] = 1
  /\ \A s \in Sessions : Born(s) => main.child[s] = main.sock

\* both sessions have their child and each backend connection has carried a
\* command and its reply
C27_Witness ==
  /\ \A s \in Sessions : Born(s) /\ main.child[s] = main.sock
  /\ \A c \in Conns : be[c].rep # "" /\ main.sock[c] = 1

\* a command for a file Smain keeps itself is waiting at session s's child
LocalPending(s) ==
  /\ co[s].pc = "cmd" /\ c2m[s] # <<>>
  /\ c2m[s][1].k = "cmd" /\ strrchr_dot(c2m[s][1].name) = ".c"

\* C28: whatever the other sessions are blocked in, a connection waiting
\* at the accept loop gets its child, and a command that needs no backend
\* connection, waiting at a child in prcclient, is read and worked off with
\* the child back in prcclient.
C28_AcceptUnblocked ==
  /\ \A s \in Sessions : (co[s].pc = "backlog") ~> Born(s)
  /\ \A s \in Sessions : LocalPending(s) ~> (co[s].pc = "cmd" /\ c2m[s] = <<>>)

\* session 2 was accepted while session 1's child was blocked waiting for a
\* backend that has not even accepted Smain's connection, and session 2 has
\* had a local command answered while session 1 is still blocked there
C28_Witness ==
  /\ InOperation(1) /\ be[co[1].conn].pc = "backlog"
  /\ 1 \in main.busy[2]
  /\ co[2].pc = "cmd" /\ co[2].rep # "" /\ strrchr_dot(co[2].name) = ".c"

\* C31: while a session's first command is a listing of a directory the
\* backend store has no file under, no backend child runs process_command
\* on something Smain wrote that is not a command (it would answer
\* "Invalid command"), and once the client is back at its prompt with both
\* backend children in prcclient and nothing on its way to them, nothing is
\* left unread on either backend connection.
C31_EmptyListingClean ==
  \A s \in Sessions :
    (/\ cl[s].op = "display" /\ cl[s].prev = NoCmd
     /\ traverse_directory(spdf, cl[s].dir) = <<>>)
    => \A c \in Conns :
         /\ be[c].rep # "Invalid command"
         /\ (cl[s].pc = "prompt" /\ co[s].pc = "cmd"
             /\ be[c].pc = "cmd" /\ m2b[c] = <<>>) => b2m[c] = <<>>

\* C32: no session loop reads payload as a command: whenever a child that
\* is in prcclient, Smain's (its client uploading a name client24s accepts)
\* or the backend's, takes bytes from its connection, the first of them is
\* not a byte of an upload's payload.
C32_PayloadNotCommand ==
  [][/\ \A s \in Sessions :
          (/\ co[s].pc = "cmd" /\ Len(c2m'[s]) < Len(c2m[s])
           /\ SupportedExt(strrchr_dot(cl[s].name)))
          => c2m[s][1].k # "byte"
     /\ \A c \in Conns :
          (be[c].pc = "cmd" /\ Len(m2b'[c]) < Len(m2b[c]))
          => m2b[c][1].k # "byte"]_vars

\* C33: what the client parses as a declared length is a length
\* announcement: whenever the client, waiting in download_file or
\* display_files for the size, takes bytes from its connection, the first
\* message among them is a decimal size and not a result reply.
C33_SizeIsAnnounced ==
  [][\A s \in Sessions :
       (cl[s].pc = "d_size" /\ Len(m2c'[s]) < Len(m2c[s]))
       => m2c[s][1].k = "num"]_vars

\* C34: with Smain and the backends running, a client that has sent a
\* command and waits for the messages of its exchange is eventually back at
\* its prompt.
C34_BackToPrompt ==
  \A s \in Solo : (cl[s].pc # "prompt") ~> (cl[s].pc = "prompt")

\* C35: a receive loop whose body read returned zero bytes has been left:
\* no Smain child is still inside receive_file's loop after its recv on the
\* client socket returned 0.
C35_ZeroReadEnds ==
  \A s \in Sessions : co[s].rcv = 0 => co[s].pc # "ubody"

\* C36: the staged copy a session forwards is its own: while a child
\* forwards an upload, the file it opened for it (rbuf) holds the bytes
\* this child's receive_file wrote (wbuf), whatever the other sessions do.
C36_OwnStagedCopy ==
  \A s \in Sessions :
    co[s].pc \in {"fwd_size", "fwd_ack", "fwd_reply"}
    => co[s].rbuf = co[s].wbuf

\* C37: the bytes a child sends for an archive are the archive whose size
\* it announced: a step in which send_tar sends the body writes to the
\* client exactly the content the file had when its size was taken.
C37_ArchiveAsAnnounced ==
  [][\A s \in Sessions :
       (co[s].op = "dtar" /\ co[s].pc = "sf_size" /\ co'[s].pc = "sf_ack")
       => m2c'[s] = m2c[s] \o BodyToks(co[s].rbuf, s)]_vars

\* C38: the pdf store's root takes no text file: no step creates a file
\* with the extension .txt under ./spdf, the root of the node that listens
\* on SPDF_SERVER_PORT.
C38_NoTextInPdfStore ==
  [][\A p \in DOMAIN spdf'.files :
       ~HasFile(spdf, p) => strrchr_dot(p[2]) # ".txt"]_vars

=============================================================================
